---------------------------- MODULE Spec2Model ----------------------------
(***************************************************************************)
(* A model of occi-py's category/type system (occi/core.py): the Category  *)
(* model, the CategoryRegistry and the Entity validation state machine.    *)
(*                                                                         *)
(* Python objects are records.  A dict is a function whose DOMAIN is the   *)
(* set of its keys.  A method that may raise is an operator that returns   *)
(* the object's new state together with the exception raised (NoExc when   *)
(* it returns normally); whatever the method had already written when it   *)
(* raised is part of that returned state.                                  *)
(***************************************************************************)
EXTENDS Integers, Sequences, FiniteSets, TLC

VARIABLES
    categories,          \* CategoryRegistry._categories : identifier -> category
    locations,           \* CategoryRegistry._locations  : location -> category
    occi_kind,           \* Entity._occi_kind (None before construction)
    occi_mixins,         \* Entity._occi_mixins : identifier -> Mixin
    occi_attributes,     \* Entity._occi_attributes : name -> value
    actions_available,   \* Entity._occi_actions_available : identifier -> Category
    actions_applicable,  \* Entity._occi_actions_applicable : set of identifiers
    db,                  \* DummyBackend._db : str(entity.id) -> entity
    uuids,               \* how many ids uuid.uuid4() has handed out
    user_mixins,         \* DummyBackend._user_mixins : identifier -> Mixin
    requests,            \* the discovery POST requests being handled: where
                         \* each handler stands, its locals and its response
    result               \* the call that has just returned to its caller: its
                         \* name, what it raised, its argument (Idle between calls)

vars == <<categories, locations, occi_kind, occi_mixins, occi_attributes,
          actions_available, actions_applicable, db, uuids, user_mixins,
          requests, result>>

regVars == <<categories, locations>>
entVars == <<occi_kind, occi_mixins, occi_attributes,
             actions_available, actions_applicable>>
storeVars == <<db, uuids>>
reqVars == <<user_mixins, requests>>

-----------------------------------------------------------------------------
(* Python values *)

None == [cls |-> "None"]

EmptyDict == [k \in {} |-> None]

\* dict[k] = v
DictSet(d, k, v) == [x \in DOMAIN d \cup {k} |-> IF x = k THEN v ELSE d[x]]

\* del dict[k] / dict.pop(k, None)
DictPop(d, k) == [x \in DOMAIN d \ {k} |-> d[x]]

NoExc == [type |-> "NoExc", item |-> ""]

Exc(type, item) == [type |-> type, item |-> item]

-----------------------------------------------------------------------------
(* Attribute definitions *)

Attribute(name, required, mutable) ==
    [cls |-> "Attribute", name |-> name, required |-> required, mutable |-> mutable]

IntAttribute(name, required, mutable) ==
    [cls |-> "IntAttribute", name |-> name, required |-> required, mutable |-> mutable]

\* The strings a client may send as an attribute value: "7" is a base-10
\* integer, "x" is not.
Values == {"7", "x"}

\* attribute.from_string(s): the converted value, or Attribute.Invalid.
\* The plain Attribute returns the string; IntAttribute returns int(s).
from_string(attribute, s) ==
    IF attribute.cls = "IntAttribute"
    THEN IF s = "7"
         THEN [exc |-> NoExc, value |-> 7]
         ELSE [exc |-> Exc("Attribute.Invalid", attribute.name), value |-> None]
    ELSE [exc |-> NoExc, value |-> s]

-----------------------------------------------------------------------------
(* Categories *)

\* Category.__init__: the attributes of `related` come first, then its own.
Category(term, scheme, related, attributes) ==
    [cls |-> "Category", term |-> term, scheme |-> scheme, related |-> related,
     attributes |-> (IF related # None THEN related.attributes ELSE <<>>) \o attributes]

\* ExtCategory.__init__ adds `actions` and `location` ("" is no location).
ExtCategory(cls, term, scheme, related, attributes, actions, location) ==
    [cls |-> cls, term |-> term, scheme |-> scheme, related |-> related,
     attributes |-> (IF related # None THEN related.attributes ELSE <<>>) \o attributes,
     actions |-> actions, location |-> location]

Kind(term, scheme, related, attributes, actions, location) ==
    ExtCategory("Kind", term, scheme, related, attributes, actions, location)

Mixin(term, scheme, related, attributes, actions, location) ==
    ExtCategory("Mixin", term, scheme, related, attributes, actions, location)

\* Category.__str__: the identifier, scheme + term.
str(category) == category.scheme \o category.term

\* hasattr(category, 'location') and category.location
HasLocation(category) == "location" \in DOMAIN category /\ category.location # ""

\* hasattr(category, 'actions')
HasActions(category) == "actions" \in DOMAIN category

RECURSIVE is_related(_, _)
\* Category.is_related: walks the `related` chain comparing identifiers.
is_related(current, category) ==
    IF current = None THEN FALSE
    ELSE IF str(category) = str(current) THEN TRUE
    ELSE is_related(current.related, category)

CoreScheme == "http://schemas.ogf.org/occi/core#"

EntityKind ==
    Kind("entity", CoreScheme, None, <<Attribute("title", FALSE, TRUE)>>, <<>>, "")

ResourceKind ==
    Kind("resource", CoreScheme, EntityKind, <<Attribute("summary", FALSE, TRUE)>>, <<>>, "")

LinkKind ==
    Kind("link", CoreScheme, EntityKind,
         <<Attribute("source", TRUE, FALSE), Attribute("target", TRUE, TRUE)>>, <<>>, "")


\* occi/ext/infrastructure.py
NetworkActionScheme == "http://schemas.ogf.org/occi/infrastructure/network/action#"

InfrastructureScheme == "http://schemas.ogf.org/occi/infrastructure#"

NetworkUpActionCategory == Category("up", NetworkActionScheme, None, <<>>)

NetworkDownActionCategory == Category("down", NetworkActionScheme, None, <<>>)

NetworkKind ==
    Kind("network", InfrastructureScheme, ResourceKind,
         <<IntAttribute("occi.network.vlan", FALSE, TRUE),
           Attribute("occi.network.label", FALSE, TRUE),
           Attribute("occi.network.state", FALSE, FALSE)>>,
         <<NetworkUpActionCategory, NetworkDownActionCategory>>, "network/")

IPNetworkMixin ==
    Mixin("ipnetwork", "http://schemas.ogf.org/occi/infrastructure/network#", None,
          <<Attribute("occi.network.address", FALSE, TRUE),
            Attribute("occi.network.gateway", FALSE, TRUE),
            Attribute("occi.network.allocation", FALSE, TRUE)>>,
          <<>>, "ipnetwork/")

\* The doctest's fooKind: a second Kind that claims a location already taken
\* (here NetworkKind's).
fooKind == Kind("foo", "http://#", ResourceKind, <<>>, <<>>, "network/")

\* A later definition of the same identifier with a location of its own and
\* an Action it shares with NetworkKind.
fooKindMoved ==
    Kind("foo", "http://#", ResourceKind, <<>>, <<NetworkUpActionCategory>>, "foo/")

\* A Kind whose identifier is the one of NetworkKind's `up` Action.
upKind == Kind("up", NetworkActionScheme, ResourceKind, <<>>, <<>>, "network/")

\* A Kind that lists a Mixin as one of its Actions.
nestKind == Kind("nest", "http://#", ResourceKind, <<>>, <<IPNetworkMixin>>, "nest/")

\* The categories handed to register and unregister.
RegistryInputs ==
    {LinkKind, NetworkKind, NetworkUpActionCategory, IPNetworkMixin,
     fooKind, fooKindMoved, upKind, nestKind}

-----------------------------------------------------------------------------
(* CategoryRegistry *)

\* The registry as a value: its two dicts and the exception in flight.
Registry(cats, locs) == [categories |-> cats, locations |-> locs, exc |-> NoExc]

Raised(reg) == reg.exc # NoExc

RECURSIVE unregister(_, _)
RECURSIVE unregister_actions(_, _, _)

\* unregister that returns quietly when the identifier is not registered.
unregister_absent_ignored(reg, s) ==
    IF s \notin DOMAIN reg.categories
    THEN reg
    ELSE LET category == reg.categories[s]
             r1 == [reg EXCEPT !.categories = DictPop(@, s)]
             r2 == IF HasLocation(category)
                   THEN [r1 EXCEPT !.locations = DictPop(@, category.location)]
                   ELSE r1
         IN  IF HasActions(category)
             THEN unregister_actions(r2, category.actions, 1)
             ELSE r2

\* CategoryRegistry.unregister(category): `s` is str(category).
unregister(reg, s) ==
    IF s \notin DOMAIN reg.categories
    THEN [reg EXCEPT !.exc = Exc("Category.Invalid", "Category not registered")]
    ELSE LET category == reg.categories[s]
             r1 == [reg EXCEPT !.categories = DictPop(@, s)]
             r2 == IF HasLocation(category)
                   THEN [r1 EXCEPT !.locations = DictPop(@, category.location)]
                   ELSE r1
         IN  IF HasActions(category)
             THEN unregister_actions(r2, category.actions, 1)
             ELSE r2

\* unregister without its last loop: the Actions stay registered.
unregister_actions_skipped(reg, actions, i) == reg

\* for action in category.actions: self.unregister(action)
unregister_actions(reg, actions, i) ==
    IF i > Len(actions) THEN reg
    ELSE LET r == unregister(reg, str(actions[i]))
         IN  IF Raised(r) THEN r ELSE unregister_actions(r, actions, i + 1)

RECURSIVE register(_, _)
RECURSIVE register_actions(_, _, _)

\* register without the test for a taken location: the new category takes
\* the location over.
register_takes_location(reg, category) ==
    LET s  == str(category)
        r0 == IF s \in DOMAIN reg.categories THEN unregister(reg, s) ELSE reg
    IN  IF Raised(r0) THEN r0
        ELSE LET r1 == IF HasLocation(category)
                       THEN [r0 EXCEPT !.locations = DictSet(@, category.location, category)]
                       ELSE r0
                 r2 == [r1 EXCEPT !.categories = DictSet(@, s, category)]
             IN  IF HasActions(category)
                 THEN register_actions(r2, category.actions, 1)
                 ELSE r2

\* CategoryRegistry.register(category)
register(reg, category) ==
    LET s  == str(category)
        r0 == IF s \in DOMAIN reg.categories THEN unregister(reg, s) ELSE reg
    IN  IF Raised(r0) THEN r0
        ELSE IF HasLocation(category) /\ category.location \in DOMAIN r0.locations
        THEN [r0 EXCEPT !.exc = Exc("Category.Invalid", "location path already defined")]
        ELSE LET r1 == IF HasLocation(category)
                       THEN [r0 EXCEPT !.locations = DictSet(@, category.location, category)]
                       ELSE r0
                 r2 == [r1 EXCEPT !.categories = DictSet(@, s, category)]
             IN  IF HasActions(category)
                 THEN register_actions(r2, category.actions, 1)
                 ELSE r2

\* for action in category.actions: ... self.register(action)
register_actions(reg, actions, i) ==
    IF i > Len(actions) THEN reg
    ELSE IF HasActions(actions[i])
    THEN [reg EXCEPT !.exc = Exc("Category.Invalid",
                                 "Only the base Category type allowed to identify Actions")]
    ELSE LET r == register(reg, actions[i])
         IN  IF Raised(r) THEN r ELSE register_actions(r, actions, i + 1)

\* CategoryRegistry.lookup_id
lookup_id(reg, identifier) ==
    IF identifier \in DOMAIN reg.categories
    THEN [exc |-> NoExc, value |-> reg.categories[identifier]]
    ELSE [exc |-> Exc("Category.DoesNotExist", identifier), value |-> None]

\* CategoryRegistry.lookup_location (the path already stripped of its
\* leading slash)
lookup_location(reg, loc) ==
    IF loc \in DOMAIN reg.locations THEN reg.locations[loc] ELSE None

\* CategoryRegistry.__init__
CategoryRegistry ==
    register(register(register(Registry(EmptyDict, EmptyDict), EntityKind),
                      ResourceKind), LinkKind)


-----------------------------------------------------------------------------
(* Entity *)

\* The doctests' Action categories.
startAction == Category("start", "http://example.com/occi/foo/action#", None, <<>>)

stopAction == Category("stop", "http://example.com/occi/foo/action#", None, <<>>)

\* A Mixin that declares attributes and Actions: an optional, mutable integer
\* (as NetworkKind's vlan) and a state only the server sets, neither required
\* nor mutable (as NetworkKind's state).
fooMixin ==
    Mixin("foo", "http://example.com/occi/mixin#", None,
          <<IntAttribute("com.example.size", FALSE, TRUE),
            Attribute("com.example.state", FALSE, FALSE)>>,
          <<startAction, stopAction>>, "foo/")

\* A Mixin that declares one of fooMixin's Actions and nothing else.
barMixin ==
    Mixin("bar", "http://example.com/occi/mixin#", None, <<>>, <<stopAction>>, "bar/")

\* The doctest's Kind with an Action: a Resource with one required, mutable
\* attribute.
fooActionKind ==
    Kind("foo", "http://example.com/occi#", ResourceKind,
         <<Attribute("com.example.bar", TRUE, TRUE)>>, <<startAction>>, "")

\* A Kind that is not related to EntityKind.
strayKind == Kind("stray", "http://example.com/occi#", None, <<>>, <<>>, "")

\* The entity as a value: its fields and the exception in flight.
EntityValue(kind, mixins, attributes, available, applicable) ==
    [occi_kind |-> kind, occi_mixins |-> mixins, occi_attributes |-> attributes,
     actions_available |-> available, actions_applicable |-> applicable,
     exc |-> NoExc]

RECURSIVE add_actions_available(_, _, _)
\* Entity._add_actions_available(actions)
add_actions_available(e, actions, i) ==
    IF i > Len(actions) THEN e
    ELSE add_actions_available(
             [e EXCEPT !.actions_available = DictSet(@, str(actions[i]), actions[i])],
             actions, i + 1)

RECURSIVE remove_actions_available_only(_, _, _)
\* _remove_actions_available without its second pop: the Actions stay in the
\* applicable set.
remove_actions_available_only(e, actions, i) ==
    IF i > Len(actions) THEN e
    ELSE remove_actions_available_only(
             [e EXCEPT !.actions_available = DictPop(@, str(actions[i]))],
             actions, i + 1)

RECURSIVE remove_actions_available(_, _, _)
\* Entity._remove_actions_available(actions)
remove_actions_available(e, actions, i) ==
    IF i > Len(actions) THEN e
    ELSE remove_actions_available(
             [e EXCEPT !.actions_available = DictPop(@, str(actions[i])),
                       !.actions_applicable = @ \ {str(actions[i])}],
             actions, i + 1)

\* add_occi_mixin without its isinstance test: whatever it is handed is
\* attached.
add_occi_mixin_unchecked(e, mixin) ==
    add_actions_available(
        [e EXCEPT !.occi_mixins = DictSet(@, str(mixin), mixin)],
        IF HasActions(mixin) THEN mixin.actions ELSE <<>>, 1)

\* Entity.add_occi_mixin(mixin)
add_occi_mixin(e, mixin) ==
    IF mixin.cls # "Mixin"
    THEN [e EXCEPT !.exc = Exc("InvalidCategory", str(mixin))]
    ELSE add_actions_available(
             [e EXCEPT !.occi_mixins = DictSet(@, str(mixin), mixin)],
             mixin.actions, 1)

\* Entity.remove_occi_mixin(mixin)
remove_occi_mixin(e, mixin) ==
    IF str(mixin) \notin DOMAIN e.occi_mixins
    THEN [e EXCEPT !.exc = Exc("UnknownCategory", str(mixin))]
    ELSE remove_actions_available(
             [e EXCEPT !.occi_mixins = DictPop(@, str(mixin))],
             e.occi_mixins[str(mixin)].actions, 1)

RECURSIVE add_occi_mixins(_, _, _)
\* for mixin in mixins: self.add_occi_mixin(mixin)
add_occi_mixins(e, mixins, i) ==
    IF i > Len(mixins) THEN e
    ELSE LET r == add_occi_mixin(e, mixins[i])
         IN  IF Raised(r) THEN r ELSE add_occi_mixins(r, mixins, i + 1)

\* Entity.__init__(kind, mixins): the new entity, or InvalidCategory.
Entity(kind, mixins) ==
    LET blank == EntityValue(None, EmptyDict, EmptyDict, EmptyDict, {})
    IN  IF kind = None \/ kind.cls # "Kind" \/ ~is_related(kind, EntityKind)
        THEN [blank EXCEPT !.exc = Exc("InvalidCategory", "not a valid Kind instance")]
        ELSE add_occi_mixins(
                 add_actions_available([blank EXCEPT !.occi_kind = kind], kind.actions, 1),
                 mixins, 1)

RECURSIVE DictValues(_)
\* dict.values(): the values in the dict's iteration order, which the
\* language leaves open; the Mixins of the model declare disjoint attribute
\* names, so what follows does not depend on it.
DictValues(d) ==
    IF DOMAIN d = {} THEN <<>>
    ELSE LET k == CHOOSE x \in DOMAIN d : TRUE
         IN  <<d[k]>> \o DictValues(DictPop(d, k))

\* Entity.list_occi_categories()
list_occi_categories(e) == <<e.occi_kind>> \o DictValues(e.occi_mixins)

RECURSIVE AllAttributes(_, _)
\* for category in self.list_occi_categories(): for attribute in
\* category.attributes: the attributes in the order the loops visit them.
AllAttributes(cats, i) ==
    IF i > Len(cats) THEN <<>> ELSE cats[i].attributes \o AllAttributes(cats, i + 1)

RECURSIVE load_attr_dict_last_wins(_, _, _)
\* The first loop without its duplicate test: a repeated name keeps its last
\* value.
load_attr_dict_last_wins(attr_list, i, attr_dict) ==
    IF i > Len(attr_list) THEN [exc |-> NoExc, attr_dict |-> attr_dict]
    ELSE load_attr_dict_last_wins(attr_list, i + 1,
                                  DictSet(attr_dict, attr_list[i][1], attr_list[i][2]))

RECURSIVE load_attr_dict(_, _, _)
\* The first loop of set_occi_attributes: the list as a dict, or
\* DuplicateAttribute.
load_attr_dict(attr_list, i, attr_dict) ==
    IF i > Len(attr_list) THEN [exc |-> NoExc, attr_dict |-> attr_dict]
    ELSE IF attr_list[i][1] \in DOMAIN attr_dict
    THEN [exc |-> Exc("DuplicateAttribute", attr_list[i][1]), attr_dict |-> attr_dict]
    ELSE load_attr_dict(attr_list, i + 1, DictSet(attr_dict, attr_list[i][1], attr_list[i][2]))

\* The write-once test without its "not yet specified" part: a required
\* attribute may be set again.
settable_when_required(attribute, stored, validate) ==
    ~validate \/ attribute.mutable \/ attribute.required

\* The write-once test without its "required" part: any attribute may be set
\* once.
settable_when_unset(attribute, stored, validate) ==
    ~validate \/ attribute.mutable \/ attribute.name \notin DOMAIN stored

\* if not validate or attribute.mutable or (attribute.required and
\*     attribute.name not in self._occi_attributes)
settable(attribute, stored, validate) ==
    \/ ~validate
    \/ attribute.mutable
    \/ (attribute.required /\ attribute.name \notin DOMAIN stored)

\* No attribute is ever reported missing.
never_missing(attribute, stored, validate) == FALSE

\* if validate and attribute.required and attribute.name not in
\*     self._occi_attributes
missing(attribute, stored, validate) ==
    validate /\ attribute.required /\ attribute.name \notin DOMAIN stored

RECURSIVE add_attributes(_, _, _, _, _)
\* The second loop of set_occi_attributes, over the attributes the entity's
\* categories define, storing as it goes: the attribute storage it leaves and
\* the exception it raised.  UnknownAttribute names one of the keys left
\* over (keys()[0]); which one is open, so the model keeps no name for it.
add_attributes(stored, attr_dict, attributes, i, validate) ==
    IF i > Len(attributes)
    THEN [occi_attributes |-> stored,
          exc |-> IF DOMAIN attr_dict # {} THEN Exc("UnknownAttribute", "") ELSE NoExc]
    ELSE LET attribute == attributes[i]
             name == attribute.name
         IN  IF name \in DOMAIN attr_dict
             THEN IF settable(attribute, stored, validate)
                  THEN LET conv == from_string(attribute, attr_dict[name])
                       IN  IF conv.exc # NoExc
                           THEN [occi_attributes |-> stored, exc |-> conv.exc]
                           ELSE add_attributes(DictSet(stored, name, conv.value),
                                               DictPop(attr_dict, name),
                                               attributes, i + 1, validate)
                  ELSE [occi_attributes |-> stored,
                        exc |-> Exc("ImmutableAttribute", name)]
             ELSE IF missing(attribute, stored, validate)
             THEN [occi_attributes |-> stored, exc |-> Exc("RequiredAttribute", name)]
             ELSE add_attributes(stored, attr_dict, attributes, i + 1, validate)

\* set_occi_attributes with `validate` taken as true whatever the caller
\* passed.
set_occi_attributes_validating(e, attr_list, validate) ==
    LET loaded == load_attr_dict(attr_list, 1, EmptyDict)
    IN  IF loaded.exc # NoExc THEN [e EXCEPT !.exc = loaded.exc]
        ELSE LET r == add_attributes(e.occi_attributes, loaded.attr_dict,
                                     AllAttributes(list_occi_categories(e), 1), 1, TRUE)
             IN  [e EXCEPT !.occi_attributes = r.occi_attributes, !.exc = r.exc]

\* set_occi_attributes that stores nothing unless the whole list is accepted.
set_occi_attributes_all_or_nothing(e, attr_list, validate) ==
    LET loaded == load_attr_dict(attr_list, 1, EmptyDict)
    IN  IF loaded.exc # NoExc THEN [e EXCEPT !.exc = loaded.exc]
        ELSE LET r == add_attributes(e.occi_attributes, loaded.attr_dict,
                                     AllAttributes(list_occi_categories(e), 1), 1, validate)
             IN  IF r.exc # NoExc THEN [e EXCEPT !.exc = r.exc]
                 ELSE [e EXCEPT !.occi_attributes = r.occi_attributes, !.exc = r.exc]

\* Entity.set_occi_attributes(attr_list, validate)
set_occi_attributes(e, attr_list, validate) ==
    LET loaded == load_attr_dict(attr_list, 1, EmptyDict)
    IN  IF loaded.exc # NoExc THEN [e EXCEPT !.exc = loaded.exc]
        ELSE LET r == add_attributes(e.occi_attributes, loaded.attr_dict,
                                     AllAttributes(list_occi_categories(e), 1), 1, validate)
             IN  [e EXCEPT !.occi_attributes = r.occi_attributes, !.exc = r.exc]

\* Entity.occi_list_actions(): as the set of identifiers
occi_list_actions(e) == DOMAIN e.actions_available

\* Entity.occi_is_applicable_action(action_category)
occi_is_applicable_action(e, action_category) ==
    /\ str(action_category) \in e.actions_applicable
    /\ str(action_category) \in DOMAIN e.actions_available

\* Entity.occi_list_applicable_actions(): the categories of the applicable
\* Actions, looked up in the available ones; KeyError for one that is not
\* there.
occi_list_applicable_actions(e) ==
    IF e.actions_applicable \subseteq DOMAIN e.actions_available
    THEN [value |-> {e.actions_available[cat_id] : cat_id \in e.actions_applicable},
          exc |-> NoExc]
    ELSE [value |-> {}, exc |-> Exc("KeyError", "")]

\* occi_set_applicable_action without its test of the available set.
occi_set_applicable_action_unchecked(e, action_category, applicable) ==
    IF applicable
    THEN [e EXCEPT !.actions_applicable = @ \cup {str(action_category)}]
    ELSE [e EXCEPT !.actions_applicable = @ \ {str(action_category)}]

\* Entity.occi_set_applicable_action(action_category, applicable)
occi_set_applicable_action(e, action_category, applicable) ==
    LET cat_id == str(action_category)
    IN  IF cat_id \notin DOMAIN e.actions_available
        THEN [e EXCEPT !.exc = Exc("UnknownCategory", cat_id)]
        ELSE IF applicable
        THEN [e EXCEPT !.actions_applicable = @ \cup {cat_id}]
        ELSE [e EXCEPT !.actions_applicable = @ \ {cat_id}]

-----------------------------------------------------------------------------
(* DataObject: from the categories and attributes of a request to an Entity *)

\* The Entity methods save_to_entity calls.
occi_get_kind(e) == e.occi_kind

occi_add_mixin(e, mixin) == add_occi_mixin(e, mixin)

occi_import_attributes(e, attr_list, validate) == set_occi_attributes(e, attr_list, validate)

\* kind.entity_type(kind, mixins=mixins): Entity, Resource and Link share
\* Entity.__init__.
entity_type(kind, mixins) == Entity(kind, mixins)

\* No entity: what save_to_entity is passed, or leaves, when there is none.
NoEntity == EntityValue(None, EmptyDict, EmptyDict, EmptyDict, {})

RECURSIVE resolve_categories_last_kind(_, _, _, _, _)
\* _resolve_categories without its test for a second Kind: the last Kind of
\* the list wins.
resolve_categories_last_kind(cats, reg, i, kind, mixins) ==
    IF i > Len(cats) THEN [kind |-> kind, mixins |-> mixins, exc |-> NoExc]
    ELSE LET found == IF reg # None THEN lookup_id(reg, str(cats[i]))
                      ELSE [exc |-> NoExc, value |-> cats[i]]
             category == found.value
         IN  IF found.exc # NoExc
             THEN [kind |-> kind, mixins |-> mixins, exc |-> found.exc]
             ELSE IF category.cls = "Kind"
             THEN resolve_categories_last_kind(cats, reg, i + 1, category, mixins)
             ELSE IF category.cls = "Mixin"
             THEN resolve_categories_last_kind(cats, reg, i + 1, kind,
                                               Append(mixins, category))
             ELSE [kind |-> kind, mixins |-> mixins,
                   exc |-> Exc("DataObject.Invalid", "Is neither a Kind nor a Mixin")]

RECURSIVE resolve_categories(_, _, _, _, _)
\* DataObject._resolve_categories(categories, category_registry): the Kind
\* (None when the list has none), the Mixins, and the exception raised; `reg`
\* is None when no registry is passed.
resolve_categories(cats, reg, i, kind, mixins) ==
    IF i > Len(cats) THEN [kind |-> kind, mixins |-> mixins, exc |-> NoExc]
    ELSE LET found == IF reg # None THEN lookup_id(reg, str(cats[i]))
                      ELSE [exc |-> NoExc, value |-> cats[i]]
             category == found.value
         IN  IF found.exc # NoExc
             THEN [kind |-> kind, mixins |-> mixins, exc |-> found.exc]
             ELSE IF category.cls = "Kind"
             THEN IF kind # None /\ str(kind) # str(category)
                  THEN [kind |-> kind, mixins |-> mixins,
                        exc |-> Exc("DataObject.Invalid",
                                    "Only one Kind allowed to define a resource")]
                  ELSE resolve_categories(cats, reg, i + 1, category, mixins)
             ELSE IF category.cls = "Mixin"
             THEN resolve_categories(cats, reg, i + 1, kind, Append(mixins, category))
             ELSE [kind |-> kind, mixins |-> mixins,
                   exc |-> Exc("DataObject.Invalid", "Is neither a Kind nor a Mixin")]

\* save_to_entity without its test of the Kind of the entity it is passed.
save_to_entity_any_kind(entity, cats, attributes, reg, validate_attr) ==
    LET resolved == resolve_categories(cats, reg, 1, None, <<>>)
        kind == resolved.kind
        mixins == resolved.mixins
    IN  IF resolved.exc.type = "Category.DoesNotExist"
        THEN [entity EXCEPT !.exc = Exc("DataObject.Invalid", "Category.DoesNotExist")]
        ELSE IF resolved.exc # NoExc
        THEN [entity EXCEPT !.exc = resolved.exc]
        ELSE LET e1 == IF entity = NoEntity
                       THEN IF kind = None
                            THEN [NoEntity EXCEPT !.exc =
                                     Exc("DataObject.Invalid",
                                         "Kind not specified, cannot create Entity")]
                            ELSE LET new == entity_type(kind, mixins)
                                 IN  IF Raised(new) THEN [NoEntity EXCEPT !.exc = new.exc]
                                     ELSE new
                       ELSE add_occi_mixins(entity, mixins, 1)
             IN  IF Raised(e1) THEN e1
                 ELSE LET e2 == occi_import_attributes(e1, attributes, validate_attr)
                      IN  IF ~Raised(e2) THEN e2
                          ELSE IF entity = NoEntity
                          THEN [NoEntity EXCEPT !.exc =
                                   Exc("DataObject.Invalid", e2.exc.type)]
                          ELSE [e2 EXCEPT !.exc = Exc("DataObject.Invalid", e2.exc.type)]

\* DataObject.save_to_entity(entity, category_registry, validate_attr) of a
\* DataObject with these categories and attributes and no links: the entity
\* it returns, or the entity as the call left it and the exception raised
\* (DataObject.Invalid carries the name of the exception it wraps).
\* `entity` is NoEntity when none is passed.
save_to_entity(entity, cats, attributes, reg, validate_attr) ==
    LET resolved == resolve_categories(cats, reg, 1, None, <<>>)
        kind == resolved.kind
        mixins == resolved.mixins
    IN  IF resolved.exc.type = "Category.DoesNotExist"
        THEN [entity EXCEPT !.exc = Exc("DataObject.Invalid", "Category.DoesNotExist")]
        ELSE IF resolved.exc # NoExc
        THEN [entity EXCEPT !.exc = resolved.exc]
        ELSE LET e1 == IF entity = NoEntity
                       THEN IF kind = None
                            THEN [NoEntity EXCEPT !.exc =
                                     Exc("DataObject.Invalid",
                                         "Kind not specified, cannot create Entity")]
                            ELSE LET new == entity_type(kind, mixins)
                                 IN  IF Raised(new) THEN [NoEntity EXCEPT !.exc = new.exc]
                                     ELSE new
                       ELSE IF kind # None /\ str(kind) # str(occi_get_kind(entity))
                       THEN [entity EXCEPT !.exc =
                                Exc("DataObject.Invalid",
                                    "Cannot change Kind of existing Entity")]
                       ELSE add_occi_mixins(entity, mixins, 1)
             IN  IF Raised(e1) THEN e1
                 ELSE LET e2 == occi_import_attributes(e1, attributes, validate_attr)
                      IN  IF ~Raised(e2) THEN e2
                          ELSE IF entity = NoEntity
                          THEN [NoEntity EXCEPT !.exc =
                                   Exc("DataObject.Invalid", e2.exc.type)]
                          ELSE [e2 EXCEPT !.exc = Exc("DataObject.Invalid", e2.exc.type)]

-----------------------------------------------------------------------------
(* Action instances *)

\* The Action category of the Action doctest, with a counter beside its
\* required parameter.
barAction ==
    Category("bar", "http://example.com/occi/foo/action#", None,
             <<Attribute("example.com.bar", TRUE, TRUE),
               IntAttribute("example.com.count", FALSE, TRUE)>>)

RECURSIVE load_param_dict(_, _, _)
\* The first loop of Action.__init__: the list as a dict.  On a repeated
\* name it evaluates self.DuplicateAttribute, which Action does not have
\* (only Entity has): an AttributeError.
load_param_dict(parameters, i, param_dict) ==
    IF i > Len(parameters) THEN [exc |-> NoExc, param_dict |-> param_dict]
    ELSE IF parameters[i][1] \in DOMAIN param_dict
    THEN [exc |-> Exc("AttributeError", "DuplicateAttribute"), param_dict |-> param_dict]
    ELSE load_param_dict(parameters, i + 1,
                         DictSet(param_dict, parameters[i][1], parameters[i][2]))

RECURSIVE add_parameters(_, _, _, _)
\* The second loop of Action.__init__, over the attributes of the category,
\* and the test for names left over (keys()[0]: which one is open, so the
\* model keeps no name for it).
add_parameters(stored, param_dict, attributes, i) ==
    IF i > Len(attributes)
    THEN [occi_parameters |-> stored,
          exc |-> IF DOMAIN param_dict # {} THEN Exc("UnknownParameter", "") ELSE NoExc]
    ELSE LET attribute == attributes[i]
             name == attribute.name
             conv == from_string(attribute, param_dict[name])
         IN  IF name \in DOMAIN param_dict
             THEN IF conv.exc # NoExc
                  THEN [occi_parameters |-> stored, exc |-> conv.exc]
                  ELSE add_parameters(DictSet(stored, name, conv.value),
                                      DictPop(param_dict, name), attributes, i + 1)
             ELSE IF attribute.required
             THEN [occi_parameters |-> stored, exc |-> Exc("RequiredParameter", name)]
             ELSE add_parameters(stored, param_dict, attributes, i + 1)

\* Action(category, parameters): the instance, or None and the exception.
Action(category, parameters) ==
    LET loaded == load_param_dict(parameters, 1, EmptyDict)
        added == add_parameters(EmptyDict, loaded.param_dict, category.attributes, 1)
    IN  IF loaded.exc # NoExc THEN [value |-> None, exc |-> loaded.exc]
        ELSE IF added.exc # NoExc THEN [value |-> None, exc |-> added.exc]
        ELSE [value |-> [cls |-> "Action", category |-> category,
                         parameters |-> added.occi_parameters],
              exc |-> NoExc]

\* The subclasses of Action.ActionError.
ActionError == {"UnknownParameter", "RequiredParameter"}

\* DataObject.save_as_action(category_registry): the Action, or None and the
\* exception.  Only Action.ActionError is turned into DataObject.Invalid.
save_as_action(cats, attributes, reg) ==
    IF Len(cats) # 1
    THEN [value |-> None,
          exc |-> Exc("DataObject.Invalid", "Specify a single Category to identify an Action")]
    ELSE LET found == IF reg # None THEN lookup_id(reg, str(cats[1]))
                      ELSE [exc |-> NoExc, value |-> cats[1]]
             action == Action(found.value, attributes)
         IN  IF found.exc # NoExc
             THEN [value |-> None, exc |-> Exc("DataObject.Invalid", "Category.DoesNotExist")]
             ELSE IF action.exc.type \in ActionError
             THEN [value |-> None, exc |-> Exc("DataObject.Invalid", action.exc.type)]
             ELSE action

-----------------------------------------------------------------------------
(* DummyBackend: the in-memory store *)

\* uuid.UUID values and the strings str() makes of them.  The two are never
\* equal to each other, as in Python, where a UUID equals only a UUID.
UUID(n) == [cls |-> "UUID", v |-> n]

str_id(entity_id) == [cls |-> "str", v |-> entity_id.v]

\* An entity as the store sees it: the Entity of the type system, its id (a
\* UUID, None before the first save), the Links of a Resource (each named by
\* its id) and the source and target of a Link (named by their ids).
StoreEntity(entity, id, links, source, target) ==
    [entity |-> entity, id |-> id, links |-> links, source |-> source, target |-> target]

\* isinstance(entity, Resource) and isinstance(entity, Link), for entities
\* built by kind.entity_type.
IsResource(e) == is_related(e.entity.occi_kind, ResourceKind)

IsLink(e) == is_related(e.entity.occi_kind, LinkKind)

\* entity.occi_list_categories(): the identifiers of the entity's categories.
occi_list_categories(e) ==
    {str(list_occi_categories(e.entity)[i]) : i \in DOMAIN list_occi_categories(e.entity)}

\* str(entity.occi_get_attribute(name)) for attributes that hold strings: the
\* string itself, and "None" for an attribute without a value.
str_occi_get_attribute(e, name) ==
    IF name \in DOMAIN e.entity.occi_attributes THEN e.entity.occi_attributes[name]
    ELSE "None"

\* DummyBackend.get_entity(entity_id)
get_entity(store, entity_id) ==
    IF str_id(entity_id) \in DOMAIN store
    THEN [value |-> store[str_id(entity_id)], exc |-> NoExc]
    ELSE [value |-> None, exc |-> Exc("Entity.DoesNotExist", "")]

\* DummyBackend.filter_entities(categories, attributes): the keys of the
\* entities it returns.  The attribute loop runs only when categories were
\* given too.
filter_entities(store, cats, attributes) ==
    {k \in DOMAIN store :
        /\ \A i \in DOMAIN cats : str(cats[i]) \in occi_list_categories(store[k])
        /\ (Len(cats) > 0 /\ Len(attributes) > 0)
           => \A i \in DOMAIN attributes :
                  str_occi_get_attribute(store[k], attributes[i][1]) = attributes[i][2]}

RECURSIVE pop_links(_, _, _)
\* for l in entity.links: self._db.pop(l.id, None).  The key is the UUID
\* itself, not its str().
pop_links(store, links, i) ==
    IF i > Len(links) THEN store
    ELSE pop_links(DictPop(store, links[i]), links, i + 1)

RECURSIVE remove(_, _)
\* list.remove(x) under a ValueError handler: the list without the first x.
remove(list, x) ==
    IF list = <<>> THEN <<>>
    ELSE IF Head(list) = x THEN Tail(list)
    ELSE <<Head(list)>> \o remove(Tail(list), x)

RECURSIVE delete_entities(_, _, _)
\* DummyBackend._delete_entities(entity_ids): the store it leaves and the
\* exception it raised.
delete_entities(store, entity_ids, i) ==
    IF i > Len(entity_ids) THEN [db |-> store, exc |-> NoExc]
    ELSE LET entity_id == str_id(entity_ids[i])
             entity == store[entity_id]
             source == str_id(entity.source)
             after == IF IsResource(entity) THEN pop_links(store, entity.links, 1)
                      ELSE IF IsLink(entity) /\ source \in DOMAIN store
                      THEN [store EXCEPT ![source].links = remove(@, entity.id)]
                      ELSE store
         IN  IF entity_id \notin DOMAIN store
             THEN [db |-> store, exc |-> Exc("Entity.DoesNotExist", "")]
             ELSE delete_entities(DictPop(after, entity_id), entity_ids, i + 1)

RECURSIVE save_loop(_, _, _, _)
\* The loop of save_entities over `entities`.
save_loop(store, ids, entities, i) ==
    IF i > Len(entities) THEN [db |-> store, uuids |-> ids, exc |-> NoExc]
    ELSE LET new == entities[i].id = None
             entity == IF new THEN [entities[i] EXCEPT !.id = UUID(ids + 1)]
                       ELSE entities[i]
             ids1 == IF new THEN ids + 1 ELSE ids
             source == get_entity(store, entity.source)
             target == get_entity(store, entity.target)
             linked == [store EXCEPT ![str_id(entity.source)].links =
                           SelectSeq(@, LAMBDA l : l # source.value.id) \o <<entity.id>>]
         IN  IF ~IsLink(entity)
             THEN save_loop(DictSet(store, str_id(entity.id), entity), ids1, entities, i + 1)
             ELSE IF Raised(source)
             THEN [db |-> store, uuids |-> ids1, exc |-> source.exc]
             ELSE IF Raised(target)
             THEN [db |-> store, uuids |-> ids1, exc |-> target.exc]
             ELSE IF ~IsResource(source.value)
             THEN [db |-> store, uuids |-> ids1, exc |-> Exc("AttributeError", "links")]
             ELSE save_loop(DictSet(linked, str_id(entity.id), entity), ids1, entities, i + 1)

\* DummyBackend.save_entities(entities, delete_entity_ids)
save_entities(store, ids, entities, delete_entity_ids) ==
    LET deleted == delete_entities(store, delete_entity_ids, 1)
    IN  IF Raised(deleted) THEN [db |-> deleted.db, uuids |-> ids, exc |-> deleted.exc]
        ELSE save_loop(deleted.db, ids, entities, 1)

-----------------------------------------------------------------------------
(* DiscoveryHandler.post: user-defined Mixins *)

BaseUrl == "/api"

\* The Mixin definitions requests carry: two with one location, given once as
\* a path and once as a URL, one with a location of its own and one with
\* none.
taggy == Mixin("taggy", "http://example.com/occi/custom#", None, <<>>, <<>>, "taggy/")

tagged ==
    Mixin("tagged", "http://example.com/occi/custom#", None, <<>>, <<>>,
          BaseUrl \o "/taggy/")

my_stuff ==
    Mixin("my_stuff", "http://example.com/occi/custom#", None, <<>>, <<>>,
          BaseUrl \o "/my_stuff/")

unplaced == Mixin("unplaced", "http://example.com/occi/custom#", None, <<>>, <<>>, "")

\* URLTranslator.url_strip(url): the url without the base URL and without
\* leading slashes.
url_strip(url) ==
    CASE url = BaseUrl \o "/taggy/" -> "taggy/"
      [] url = BaseUrl \o "/my_stuff/" -> "my_stuff/"
      [] OTHER -> url

\* Mixin(category.term, category.scheme, userdefined=True,
\*       related=category.related, location=location)
UserMixin(category, location) ==
    [cls |-> "Mixin", term |-> category.term, scheme |-> category.scheme,
     related |-> category.related,
     attributes |-> IF category.related # None THEN category.related.attributes ELSE <<>>,
     actions |-> <<>>, location |-> location, userdefined |-> TRUE]

\* hasattr(mixin, 'userdefined') and mixin.userdefined
UserDefined(mixin) == "userdefined" \in DOMAIN mixin /\ mixin.userdefined

-----------------------------------------------------------------------------
(* The state after construction *)

\* No call has returned that its caller has not yet looked at.
Idle == [op |-> "idle", exc |-> NoExc, arg |-> None]

\* The caller takes the outcome of the call (the value or the exception) and
\* goes on.
Return ==
    /\ result # Idle
    /\ result' = Idle
    /\ UNCHANGED <<regVars, entVars, storeVars, reqVars>>

\* The requests the server handles at a time, and a handler that has no
\* request.
Requests == {1, 2}

NoRequest ==
    [pc |-> "idle", category |-> None, mixin |-> None, response |-> "",
     named |-> <<>>, mixins |-> <<>>, i |-> 0]

Init ==
    /\ categories = CategoryRegistry.categories
    /\ locations = CategoryRegistry.locations
    /\ occi_kind = None
    /\ occi_mixins = EmptyDict
    /\ occi_attributes = EmptyDict
    /\ actions_available = EmptyDict
    /\ actions_applicable = {}
    /\ db = EmptyDict
    /\ uuids = 0
    /\ user_mixins = EmptyDict
    /\ requests = [p \in Requests |-> NoRequest]
    /\ result = Idle

-----------------------------------------------------------------------------
(* The registry's operations *)

\* reg.register(category)
Register(category) ==
    LET r == register(Registry(categories, locations), category)
    IN  /\ result = Idle
        /\ categories' = r.categories
        /\ locations' = r.locations
        /\ result' = [op |-> "register", exc |-> r.exc, arg |-> category]
        /\ UNCHANGED <<entVars, storeVars, reqVars>>

\* reg.unregister(category)
Unregister(category) ==
    LET r == unregister(Registry(categories, locations), str(category))
    IN  /\ result = Idle
        /\ categories' = r.categories
        /\ locations' = r.locations
        /\ result' = [op |-> "unregister", exc |-> r.exc, arg |-> category]
        /\ UNCHANGED <<entVars, storeVars, reqVars>>

NextRegistry ==
    \/ \E category \in RegistryInputs : Register(category)
    \/ \E category \in RegistryInputs : Unregister(category)
    \/ Return

SpecRegistry == Init /\ [][NextRegistry]_vars


-----------------------------------------------------------------------------
(* The entity's operations *)

\* The longest attribute list handed to set_occi_attributes.
MaxLen == 2

\* The longest list of Mixins handed to the Entity constructor.
MaxMixins == 1

\* The entity the state holds.
Self ==
    EntityValue(occi_kind, occi_mixins, occi_attributes,
                actions_available, actions_applicable)

Constructed == occi_kind # None

SetSelf(e) ==
    /\ occi_kind' = e.occi_kind
    /\ occi_mixins' = e.occi_mixins
    /\ occi_attributes' = e.occi_attributes
    /\ actions_available' = e.actions_available
    /\ actions_applicable' = e.actions_applicable

\* entity = Entity(kind, mixins=mixins); a constructor that raises leaves no
\* entity.
Construct(kind, mixins) ==
    LET e == Entity(kind, mixins)
    IN  /\ result = Idle
        /\ ~Constructed
        /\ IF Raised(e) THEN UNCHANGED entVars ELSE SetSelf(e)
        /\ result' = [op |-> "Entity", exc |-> e.exc, arg |-> kind]
        /\ UNCHANGED <<regVars, storeVars, reqVars>>

\* entity.add_occi_mixin(mixin)
AddMixin(mixin) ==
    LET e == add_occi_mixin(Self, mixin)
    IN  /\ result = Idle
        /\ Constructed
        /\ SetSelf(e)
        /\ result' = [op |-> "add_occi_mixin", exc |-> e.exc, arg |-> mixin]
        /\ UNCHANGED <<regVars, storeVars, reqVars>>

\* entity.remove_occi_mixin(mixin)
RemoveMixin(mixin) ==
    LET e == remove_occi_mixin(Self, mixin)
    IN  /\ result = Idle
        /\ Constructed
        /\ SetSelf(e)
        /\ result' = [op |-> "remove_occi_mixin", exc |-> e.exc, arg |-> mixin]
        /\ UNCHANGED <<regVars, storeVars, reqVars>>

\* entity.set_occi_attributes(attr_list, validate=validate)
SetAttributes(attr_list, validate) ==
    LET e == set_occi_attributes(Self, attr_list, validate)
    IN  /\ result = Idle
        /\ Constructed
        /\ SetSelf(e)
        /\ result' = [op |-> "set_occi_attributes", exc |-> e.exc,
                      arg |-> validate]
        /\ UNCHANGED <<regVars, storeVars, reqVars>>

\* entity.occi_set_applicable_action(action_category, applicable)
SetApplicable(action_category, applicable) ==
    LET e == occi_set_applicable_action(Self, action_category, applicable)
    IN  /\ result = Idle
        /\ Constructed
        /\ SetSelf(e)
        /\ result' = [op |-> "occi_set_applicable_action", exc |-> e.exc,
                      arg |-> action_category]
        /\ UNCHANGED <<regVars, storeVars, reqVars>>

\* The lists of at most n elements of S.
ListsUpTo(S, n) == UNION {[1..k -> S] : k \in 0..n}

\* Attribute import: a Link that may carry fooMixin.
AttrKinds == {LinkKind, strayKind, fooMixin}

AttrMixins == {fooMixin, LinkKind}

\* The attribute names a client sends: those LinkKind and fooMixin add to
\* EntityKind's, and one nobody defines.
AttrNames ==
    {"source", "target", "com.example.size", "com.example.state",
     "com.example.unknown"}

\* The attribute lists a client sends: name-value pairs.
AttrLists == ListsUpTo(AttrNames \X Values, MaxLen)

NextEntity ==
    \/ \E kind \in AttrKinds, mixins \in ListsUpTo(AttrMixins, MaxMixins) :
          Construct(kind, mixins)
    \/ \E mixin \in AttrMixins : AddMixin(mixin)
    \/ \E mixin \in AttrMixins : RemoveMixin(mixin)
    \/ \E attr_list \in AttrLists, validate \in BOOLEAN : SetAttributes(attr_list, validate)
    \/ Return

SpecEntity == Init /\ [][NextEntity]_vars

\* Actions: a Resource whose Kind declares `start`, and two Mixins that share
\* `stop`.
ActionKinds == {fooActionKind, strayKind, barMixin}

ActionMixins == {fooMixin, barMixin, startAction}

ActionCategories == {startAction, stopAction, NetworkUpActionCategory}

NextActions ==
    \/ \E kind \in ActionKinds, mixins \in ListsUpTo(ActionMixins, MaxMixins) :
          Construct(kind, mixins)
    \/ \E mixin \in ActionMixins : AddMixin(mixin)
    \/ \E mixin \in ActionMixins : RemoveMixin(mixin)
    \/ \E action_category \in ActionCategories, applicable \in BOOLEAN :
          SetApplicable(action_category, applicable)
    \/ Return

SpecActions == Init /\ [][NextActions]_vars

-----------------------------------------------------------------------------
(* DataObject.save_to_entity *)

\* The longest list of categories a DataObject carries.
MaxCats == 2

\* entity = d.save_to_entity(entity, category_registry, validate_attr) on a
\* DataObject d with these categories and attributes: on the entity the state
\* holds, or to make one when it holds none.
SaveToEntity(cats, attributes, with_registry, validate_attr) ==
    LET e == save_to_entity(Self, cats, attributes,
                            IF with_registry THEN Registry(categories, locations) ELSE None,
                            validate_attr)
    IN  /\ result = Idle
        /\ SetSelf(e)
        /\ result' = [op |-> "save_to_entity", exc |-> e.exc,
                      arg |-> [categories |-> cats, entity |-> Constructed,
                               registry |-> with_registry]]
        /\ UNCHANGED <<regVars, storeVars, reqVars>>

\* The categories a DataObject carries: Kinds, a Mixin, an Action category,
\* and a Kind that defines no Entity type.
DtoCategories == {LinkKind, ResourceKind, fooMixin, startAction, strayKind}

\* The attribute lists a DataObject carries.
DtoAttributes ==
    {<<>>,
     <<(<<"source", "7">>), (<<"target", "7">>)>>,
     <<(<<"target", "x">>)>>,
     <<(<<"com.example.size", "x">>)>>}

\* The user-defined Mixin the registry may come to know.
DtoRegistered == {fooMixin}

NextDataObject ==
    \/ \E category \in DtoRegistered : Register(category)
    \/ \E cats \in ListsUpTo(DtoCategories, MaxCats), attributes \in DtoAttributes,
          with_registry \in BOOLEAN, validate_attr \in BOOLEAN :
          SaveToEntity(cats, attributes, with_registry, validate_attr)
    \/ Return

SpecDataObject == Init /\ [][NextDataObject]_vars

-----------------------------------------------------------------------------
(* DataObject.save_as_action *)

\* DataObject(categories=cats, attributes=attributes).save_as_action(reg)
SaveAsAction(cats, attributes, with_registry) ==
    LET a == save_as_action(cats, attributes,
                            IF with_registry THEN Registry(categories, locations)
                            ELSE None)
    IN  /\ result = Idle
        /\ result' = [op |-> "save_as_action", exc |-> a.exc, value |-> a.value,
                      arg |-> [categories |-> cats, attributes |-> attributes,
                               registry |-> with_registry]]
        /\ UNCHANGED <<regVars, entVars, storeVars, reqVars>>

\* The categories a request names, the parameters it gives, and the
\* categories that may be registered.
ParamCategories == {barAction, stopAction}

ParamNames == {"example.com.bar", "example.com.count", "example.com.unknown"}

ParamLists == ListsUpTo(ParamNames \X Values, MaxLen)

NextAction ==
    \/ Register(barAction)
    \/ Unregister(barAction)
    \/ \E cats \in ListsUpTo(ParamCategories, MaxCats), attributes \in ParamLists,
          with_registry \in BOOLEAN :
          SaveAsAction(cats, attributes, with_registry)
    \/ Return

SpecAction == Init /\ [][NextAction]_vars

-----------------------------------------------------------------------------
(* The store's operations *)

\* The most ids the store hands out, and the most entities in one call.
MaxIds == 3

MaxBatch == 2

\* backend.save_entities(entities, delete_entity_ids=delete_entity_ids)
SaveEntities(entities, delete_entity_ids) ==
    LET r == save_entities(db, uuids, entities, delete_entity_ids)
    IN  /\ result = Idle
        /\ uuids + Len(entities) <= MaxIds
        /\ db' = r.db
        /\ uuids' = r.uuids
        /\ result' = [op |-> "save_entities", exc |-> r.exc,
                      arg |-> [entities |-> entities,
                               delete_entity_ids |-> delete_entity_ids]]
        /\ UNCHANGED <<regVars, entVars, reqVars>>

\* backend.filter_entities(categories=cats, attributes=attributes)
FilterEntities(cats, attributes) ==
    /\ result = Idle
    /\ result' = [op |-> "filter_entities", exc |-> NoExc,
                  value |-> filter_entities(db, cats, attributes),
                  arg |-> [categories |-> cats, attributes |-> attributes]]
    /\ UNCHANGED <<regVars, entVars, storeVars, reqVars>>

\* The entities a caller hands to the store: Resources, one of them with
\* fooMixin and a state, and Links between any two ids.
StoreIds == {UUID(n) : n \in 1..MaxIds}

NewResources ==
    {StoreEntity(Entity(ResourceKind, <<>>), None, <<>>, None, None),
     StoreEntity(set_occi_attributes(Entity(ResourceKind, <<fooMixin>>),
                                     <<(<<"com.example.state", "x">>)>>, FALSE),
                 None, <<>>, None, None)}

NewLinks ==
    {StoreEntity(Entity(LinkKind, <<>>), None, <<>>, source, target) :
        source \in StoreIds, target \in StoreIds}

FilterCategories == {ResourceKind, LinkKind, fooMixin}

FilterAttributes == {"com.example.state"} \X Values

NextStore ==
    \/ \E entities \in ListsUpTo(NewResources \cup NewLinks, MaxBatch),
          delete_entity_ids \in ListsUpTo(StoreIds, 1) :
          SaveEntities(entities, delete_entity_ids)
    \/ \E cats \in ListsUpTo(FilterCategories, MaxCats),
          attributes \in ListsUpTo(FilterAttributes, MaxLen) :
          FilterEntities(cats, attributes)
    \/ Return

SpecStore == Init /\ [][NextStore]_vars

-----------------------------------------------------------------------------
(* Discovery POST requests, handled concurrently *)

\* The handler of request p goes to `pc`, with its response if it has one.
Goto(p, pc, response) ==
    requests' = [requests EXCEPT ![p].pc = pc, ![p].response = response]

\* A request arrives with one Mixin definition; the handler tests that it
\* has a location.
Post(p, category) ==
    /\ requests[p].pc = "idle"
    /\ requests' = [requests EXCEPT
           ![p].category = category,
           ![p].pc = IF category.location = "" THEN "done" ELSE "lookup_id",
           ![p].response = IF category.location = "" THEN "BAD_REQUEST" ELSE ""]
    /\ UNCHANGED <<regVars, entVars, storeVars, user_mixins, result>>

\* self.backend.registry.lookup_id(category): the Mixin must not exist.
PostLookupId(p) ==
    /\ requests[p].pc = "lookup_id"
    /\ IF Raised(lookup_id(Registry(categories, locations), str(requests[p].category)))
       THEN Goto(p, "lookup_location", "")
       ELSE Goto(p, "done", "BAD_REQUEST")
    /\ UNCHANGED <<regVars, entVars, storeVars, user_mixins, result>>

\* self.backend.registry.lookup_location(location): the location must not be
\* used; then the Mixin instance is created.
PostLookupLocation(p) ==
    LET location == url_strip(requests[p].category.location)
    IN  /\ requests[p].pc = "lookup_location"
        /\ IF lookup_location(Registry(categories, locations), location) # None
           THEN Goto(p, "done", "BAD_REQUEST")
           ELSE requests' = [requests EXCEPT
                    ![p].mixin = UserMixin(requests[p].category, location),
                    ![p].pc = "add_user_category"]
        /\ UNCHANGED <<regVars, entVars, storeVars, user_mixins, result>>

\* self.backend.add_user_category(mixin)
PostAddUserCategory(p) ==
    /\ requests[p].pc = "add_user_category"
    /\ user_mixins' = DictSet(user_mixins, str(requests[p].mixin), requests[p].mixin)
    /\ Goto(p, "register", "")
    /\ UNCHANGED <<regVars, entVars, storeVars, result>>

\* register: if s in self._categories: self.unregister(s)
PostRegisterKnown(p) ==
    LET s == str(requests[p].mixin)
        r == unregister(Registry(categories, locations), s)
    IN  /\ requests[p].pc = "register"
        /\ IF s \in DOMAIN categories
           THEN /\ categories' = r.categories
                /\ locations' = r.locations
                /\ Goto(p, IF Raised(r) THEN "remove_user_category" ELSE "register_location", "")
           ELSE /\ UNCHANGED regVars
                /\ Goto(p, "register_location", "")
        /\ UNCHANGED <<entVars, storeVars, user_mixins, result>>

\* register: if category.location in self._locations: raise Category.Invalid
PostRegisterLocation(p) ==
    /\ requests[p].pc = "register_location"
    /\ IF requests[p].mixin.location \in DOMAIN locations
       THEN Goto(p, "remove_user_category", "")
       ELSE Goto(p, "register_location_set", "")
    /\ UNCHANGED <<regVars, entVars, storeVars, user_mixins, result>>

\* register: self._locations[category.location] = category
PostRegisterLocationSet(p) ==
    /\ requests[p].pc = "register_location_set"
    /\ locations' = DictSet(locations, requests[p].mixin.location, requests[p].mixin)
    /\ Goto(p, "register_category_set", "")
    /\ UNCHANGED <<categories, entVars, storeVars, user_mixins, result>>

\* register: self._categories[s] = category; the Mixin has no actions to
\* register, and the handler answers OK.
PostRegisterCategorySet(p) ==
    /\ requests[p].pc = "register_category_set"
    /\ categories' = DictSet(categories, str(requests[p].mixin), requests[p].mixin)
    /\ Goto(p, "done", "OK")
    /\ UNCHANGED <<locations, entVars, storeVars, user_mixins, result>>

\* except Category.Invalid: self.backend.remove_user_category(mixin); an
\* identifier that is no longer there raises InvalidOperation, and both ways
\* the handler answers Bad Request.
PostRemoveUserCategory(p) ==
    /\ requests[p].pc = "remove_user_category"
    /\ user_mixins' = DictPop(user_mixins, str(requests[p].mixin))
    /\ Goto(p, "done", "BAD_REQUEST")
    /\ UNCHANGED <<regVars, entVars, storeVars, result>>

PostedCategories == {taggy, tagged, my_stuff, unplaced}

NextDiscovery ==
    \E p \in Requests :
        \/ \E category \in PostedCategories : Post(p, category)
        \/ PostLookupId(p)
        \/ PostLookupLocation(p)
        \/ PostAddUserCategory(p)
        \/ PostRegisterKnown(p)
        \/ PostRegisterLocation(p)
        \/ PostRegisterLocationSet(p)
        \/ PostRegisterCategorySet(p)
        \/ PostRemoveUserCategory(p)

SpecDiscovery == Init /\ [][NextDiscovery]_vars

-----------------------------------------------------------------------------
(* Discovery POST and DELETE requests, handled concurrently *)

\* The handler of request p returns this response; its locals are gone.
Answer(p, response) ==
    requests' = [requests EXCEPT ![p] = [NoRequest EXCEPT !.pc = "done",
                                                          !.response = response,
                                                          !.named = requests[p].named]]

\* A DELETE request arrives that names these categories.
Delete(p, named) ==
    /\ requests[p].pc = "idle"
    /\ requests' = [requests EXCEPT ![p].named = named, ![p].pc = "delete_lookup_id"]
    /\ UNCHANGED <<regVars, entVars, storeVars, user_mixins, result>>

\* The first loop of delete without its test for a user-defined Mixin.
DeleteLookupIdOnly(p) ==
    LET category == requests[p].named[Len(requests[p].mixins) + 1]
        mixin == lookup_id(Registry(categories, locations), str(category))
    IN  /\ requests[p].pc = "delete_lookup_id"
        /\ IF Raised(mixin)
           THEN Answer(p, "BAD_REQUEST")
           ELSE requests' = [requests EXCEPT
                    ![p].mixins = Append(@, mixin.value),
                    ![p].i = 1,
                    ![p].pc = IF Len(requests[p].mixins) + 1 = Len(requests[p].named)
                              THEN "delete_remove_user_category"
                              ELSE "delete_lookup_id"]
        /\ UNCHANGED <<regVars, entVars, storeVars, user_mixins, result>>

\* The first loop of delete, one category a step: find the Mixin in the
\* registry; it must be user-defined.
DeleteLookupId(p) ==
    LET category == requests[p].named[Len(requests[p].mixins) + 1]
        mixin == lookup_id(Registry(categories, locations), str(category))
    IN  /\ requests[p].pc = "delete_lookup_id"
        /\ IF Raised(mixin) \/ ~UserDefined(mixin.value)
           THEN Answer(p, "BAD_REQUEST")
           ELSE requests' = [requests EXCEPT
                    ![p].mixins = Append(@, mixin.value),
                    ![p].i = 1,
                    ![p].pc = IF Len(requests[p].mixins) + 1 = Len(requests[p].named)
                              THEN "delete_remove_user_category"
                              ELSE "delete_lookup_id"]
        /\ UNCHANGED <<regVars, entVars, storeVars, user_mixins, result>>

\* self.backend.remove_user_category(mixin): InvalidOperation for an
\* identifier the backend does not hold.
DeleteRemoveUserCategory(p) ==
    LET s == str(requests[p].mixins[requests[p].i])
    IN  /\ requests[p].pc = "delete_remove_user_category"
        /\ IF s \in DOMAIN user_mixins
           THEN /\ user_mixins' = DictPop(user_mixins, s)
                /\ Goto(p, "unregister", "")
           ELSE /\ UNCHANGED user_mixins
                /\ Answer(p, "BAD_REQUEST")
        /\ UNCHANGED <<regVars, entVars, storeVars, result>>

\* unregister: category = self._categories[str(category)]
DeleteUnregister(p) ==
    LET s == str(requests[p].mixins[requests[p].i])
    IN  /\ requests[p].pc = "unregister"
        /\ IF s \in DOMAIN categories
           THEN requests' = [requests EXCEPT ![p].category = categories[s],
                                             ![p].pc = "unregister_del"]
           ELSE Answer(p, "BAD_REQUEST")
        /\ UNCHANGED <<regVars, entVars, storeVars, user_mixins, result>>

\* unregister: del self._categories[str(category)]; a KeyError is caught by
\* nothing in the handler.
DeleteUnregisterDel(p) ==
    LET s == str(requests[p].category)
    IN  /\ requests[p].pc = "unregister_del"
        /\ IF s \in DOMAIN categories
           THEN /\ categories' = DictPop(categories, s)
                /\ Goto(p, "unregister_location", "")
           ELSE /\ UNCHANGED categories
                /\ Answer(p, "KeyError")
        /\ UNCHANGED <<locations, entVars, storeVars, user_mixins, result>>

\* unregister: self._locations.pop(category.location, None); the Mixin has no
\* actions to unregister, and the handler goes on to its next Mixin or
\* answers OK.
DeleteUnregisterLocation(p) ==
    /\ requests[p].pc = "unregister_location"
    /\ locations' = IF HasLocation(requests[p].category)
                    THEN DictPop(locations, requests[p].category.location)
                    ELSE locations
    /\ IF requests[p].i < Len(requests[p].mixins)
       THEN requests' = [requests EXCEPT ![p].i = @ + 1,
                                         ![p].pc = "delete_remove_user_category"]
       ELSE Answer(p, "OK")
    /\ UNCHANGED <<categories, entVars, storeVars, user_mixins, result>>

\* The response is sent and the handler is free for the next request.
Respond(p) ==
    /\ requests[p].pc = "done"
    /\ requests' = [requests EXCEPT ![p] = NoRequest]
    /\ UNCHANGED <<regVars, entVars, storeVars, user_mixins, result>>

\* The categories DELETE requests name: user-defined Mixins, a built-in Kind
\* and a Mixin the application registers.
DeletedCategories == {taggy, ResourceKind, IPNetworkMixin}

\* The Mixin definitions POST requests carry: two Mixins with one location.
UserCategories == {taggy, tagged}

\* The categories the application registers itself.
DiscoveryRegistered == {IPNetworkMixin}

NextUserMixins ==
    \/ \E p \in Requests :
        \/ \E category \in UserCategories : Post(p, category)
        \/ PostLookupId(p)
        \/ PostLookupLocation(p)
        \/ PostAddUserCategory(p)
        \/ PostRegisterKnown(p)
        \/ PostRegisterLocation(p)
        \/ PostRegisterLocationSet(p)
        \/ PostRegisterCategorySet(p)
        \/ PostRemoveUserCategory(p)
        \/ \E named \in ListsUpTo(DeletedCategories, MaxCats) \ {<<>>} : Delete(p, named)
        \/ DeleteLookupId(p)
        \/ DeleteRemoveUserCategory(p)
        \/ DeleteUnregister(p)
        \/ DeleteUnregisterDel(p)
        \/ DeleteUnregisterLocation(p)
        \/ Respond(p)
    \/ \E category \in DiscoveryRegistered : Register(category)
    \/ Return

SpecUserMixins == Init /\ [][NextUserMixins]_vars

-----------------------------------------------------------------------------
(* EntityHandler._post_action *)

\* The outcome of a handler: the response it returns, the exception that
\* leaves it instead, and whether it called backend.exec_action.
Response(status, executed) == [status |-> status, exc |-> NoExc, executed |-> executed]

\* EntityHandler._post_action(request, entity_id) for a request with these
\* values of the `action` query parameter and these parsed data objects,
\* where `entity` is what the backend stores under entity_id (NoEntity:
\* nothing).  DummyBackend.exec_action finds no exec_action on the entity and
\* returns None, so the body is empty and the answer is OK.
post_action(entity, reg, action_name, objects) ==
    LET dao == objects[1]
        action == save_as_action(dao.categories, dao.attributes, reg)
    IN  IF action_name = <<>> THEN Response("BAD_REQUEST", FALSE)
        ELSE IF entity = NoEntity THEN Response("NOT_FOUND", FALSE)
        ELSE IF Len(objects) # 1 THEN Response("BAD_REQUEST", FALSE)
        ELSE IF action.exc.type = "DataObject.Invalid" THEN Response("BAD_REQUEST", FALSE)
        ELSE IF action.exc # NoExc
        THEN [status |-> "", exc |-> action.exc, executed |-> FALSE]
        ELSE IF action.value.category.term # action_name[1]
        THEN Response("BAD_REQUEST", FALSE)
        ELSE IF ~occi_is_applicable_action(entity, action.value.category)
        THEN Response("BAD_REQUEST", FALSE)
        ELSE Response("OK", TRUE)

\* The most data objects a request carries.
MaxObjects == 2

\* handler.post(request, entity_id) with query arguments, on the entity the
\* state holds: the handler and the backend leave the entity as it is.
PostAction(action_name, objects) ==
    LET r == post_action(Self, Registry(categories, locations), action_name, objects)
    IN  /\ result = Idle
        /\ result' = [op |-> "post_action", exc |-> r.exc, value |-> r,
                      arg |-> [action |-> action_name, objects |-> objects]]
        /\ UNCHANGED <<regVars, entVars, storeVars, reqVars>>

\* The values of the `action` query parameter: none, or one name.
ActionNames == {<<>>, <<"start">>, <<"stop">>}

\* The parameters a request gives: none, one the Action does not define, and
\* that one twice.
PostParameters ==
    {<<>>, <<(<<"method", "x">>)>>, <<(<<"method", "x">>), (<<"method", "x">>)>>}

\* The data objects a request carries: an Action category and parameters.
PostObjects ==
    {[categories |-> <<category>>, attributes |-> attributes] :
        category \in {startAction, stopAction}, attributes \in PostParameters}

NextPostAction ==
    \/ Register(fooMixin)
    \/ \E mixins \in ListsUpTo({fooMixin}, MaxMixins) : Construct(fooActionKind, mixins)
    \/ \E action_category \in {startAction, stopAction}, applicable \in BOOLEAN :
          SetApplicable(action_category, applicable)
    \/ \E action_name \in ActionNames, objects \in ListsUpTo(PostObjects, MaxObjects) :
          PostAction(action_name, objects)
    \/ Return

SpecPostAction == Init /\ [][NextPostAction]_vars

-----------------------------------------------------------------------------
(* Renderer selection *)

\* The table register_renderer has filled when the module is loaded: from a
\* pattern to the renderer class and the media type it is constructed with.
renderers ==
    [pattern \in {"text/occi", "text/plain", "text/uri-list", "text/*", "*/*"} |->
        CASE pattern = "text/occi" -> [renderer |-> "HeaderRenderer", media_type |-> "text/occi"]
          [] pattern = "text/plain" ->
                 [renderer |-> "TextPlainRenderer", media_type |-> "text/plain"]
          [] pattern = "text/uri-list" ->
                 [renderer |-> "TextURIListRenderer", media_type |-> "text/uri-list"]
          [] pattern = "text/*" -> [renderer |-> "TextRenderer", media_type |-> "text/plain"]
          [] pattern = "*/*" -> [renderer |-> "TextPlainRenderer", media_type |-> "text/plain"]]

\* The entry registered with default=True, constructed with media_type=None:
\* the renderer falls back on its MEDIA_TYPE.
default_renderer == [renderer |-> "TextPlainRenderer", media_type |-> "text/plain"]

RECURSIVE get_renderer_loop(_, _)
\* for pattern in accept_types: the first pattern the table has.
get_renderer_loop(accept_types, i) ==
    IF i > Len(accept_types)
    THEN [value |-> None, exc |-> Exc("RendererError", "")]
    ELSE IF accept_types[i] \in DOMAIN renderers
    THEN [value |-> renderers[accept_types[i]], exc |-> NoExc]
    ELSE get_renderer_loop(accept_types, i + 1)

\* get_renderer(accept_types)
get_renderer(accept_types) ==
    IF accept_types = <<>> THEN [value |-> default_renderer, exc |-> NoExc]
    ELSE get_renderer_loop(accept_types, 1)

RECURSIVE all_sorted(_)
\* HttpAcceptHeaders.all_sorted(): the entries of one header, highest q
\* first, entries of one q in the order of the header.
all_sorted(header) ==
    IF header = <<>> THEN <<>>
    ELSE LET last == header[Len(header)]
             front == all_sorted(SubSeq(header, 1, Len(header) - 1))
         IN  SelectSeq(front, LAMBDA h : h.q >= last.q) \o <<last>>
                 \o SelectSeq(front, LAMBDA h : h.q < last.q)

RECURSIVE parse_accept_headers(_, _, _)
\* Parser.parse: for every Accept header of the request,
\* _parse_accept_header appends the types of h.all_sorted() to accept_types.
parse_accept_headers(headers, i, accept_types) ==
    IF i > Len(headers) THEN accept_types
    ELSE LET sorted == all_sorted(headers[i])
         IN  parse_accept_headers(headers, i + 1,
                                  accept_types \o [k \in DOMAIN sorted |-> sorted[k].c_type])

\* The most Accept headers a request carries.
MaxAccept == 2

\* HandlerBase._request_init: the request is parsed and the renderer chosen
\* for the types it accepts.
GetRenderer(headers) ==
    LET r == get_renderer(parse_accept_headers(headers, 1, <<>>))
    IN  /\ result = Idle
        /\ result' = [op |-> "get_renderer", exc |-> r.exc, value |-> r.value,
                      arg |-> headers]
        /\ UNCHANGED <<regVars, entVars, storeVars, reqVars>>

\* The entries of an Accept header: a media type and its q in tenths (10
\* when the entry gives none).
AcceptEntries ==
    [c_type : {"text/occi", "text/plain", "text/html", "text/*", "*/*"}, q : {5, 10}]

\* The Accept headers of a request: each a list of at least one entry.
AcceptHeaders == ListsUpTo(ListsUpTo(AcceptEntries, MaxLen) \ {<<>>}, MaxAccept)

NextRenderer ==
    \/ \E headers \in AcceptHeaders : GetRenderer(headers)
    \/ Return

SpecRenderer == Init /\ [][NextRenderer]_vars

-----------------------------------------------------------------------------
(* EntityHandler.put *)

\* The answer of put to what save_entities returned.
put_saved(saved) ==
    IF saved.exc.type = "Entity.DoesNotExist"
    THEN [db |-> saved.db, uuids |-> saved.uuids, status |-> "NOT_FOUND", exc |-> NoExc]
    ELSE IF Raised(saved)
    THEN [db |-> saved.db, uuids |-> saved.uuids, status |-> "", exc |-> saved.exc]
    ELSE [db |-> saved.db, uuids |-> saved.uuids, status |-> "OK", exc |-> NoExc]

\* put once the entity is made: entity.id = entity_id and
\* backend.save_entities([entity]).
put_entity(store, ids, entity, entity_id) ==
    IF entity.exc.type = "DataObject.Invalid"
    THEN [db |-> store, uuids |-> ids, status |-> "BAD_REQUEST", exc |-> NoExc]
    ELSE IF Raised(entity)
    THEN [db |-> store, uuids |-> ids, status |-> "", exc |-> entity.exc]
    ELSE CHOOSE r \in {put_saved(saved) :
                          saved \in {save_entities(store, ids,
                                         <<StoreEntity(entity, entity_id, <<>>, None, None)>>,
                                         <<>>)}} : TRUE

\* EntityHandler.put(request, path) for a request with these parsed data
\* objects: a new entity is made from the one data object (save_links=False),
\* given the id of the path and saved.  A Resource is made with links=None.
put(store, ids, reg, entity_id, objects) ==
    IF Len(objects) # 1
    THEN [db |-> store, uuids |-> ids, status |-> "BAD_REQUEST", exc |-> NoExc]
    ELSE CHOOSE r \in {put_entity(store, ids, entity, entity_id) :
                          entity \in {save_to_entity(NoEntity, objects[1].categories,
                                                     objects[1].attributes, reg, TRUE)}} : TRUE

\* handler.put(request, path)
Put(entity_id, objects) ==
    \E r \in {put(db, uuids, Registry(categories, locations), entity_id, objects)} :
        /\ result = Idle
        /\ db' = r.db
        /\ uuids' = r.uuids
        /\ result' = [op |-> "put", exc |-> r.exc, value |-> r.status,
                      arg |-> [entity_id |-> entity_id, objects |-> objects]]
        /\ UNCHANGED <<regVars, entVars, reqVars>>

\* The data objects of PUT requests: a Resource with or without a summary,
\* one with a Mixin nobody registered, and one without a Kind.
PutObjects ==
    {[categories |-> <<ResourceKind>>, attributes |-> <<>>],
     [categories |-> <<ResourceKind>>, attributes |-> <<(<<"summary", "x">>)>>],
     [categories |-> <<ResourceKind, fooMixin>>, attributes |-> <<>>],
     [categories |-> <<>>, attributes |-> <<>>]}

\* The paths of the PUT requests: the first two ids the backend issues.
PutIds == {UUID(1), UUID(2)}

\* The Links stored before a PUT: from a Resource to itself.
PutLinks == {link \in NewLinks : link.source = link.target}

NextPut ==
    \/ \E entity \in NewResources \cup PutLinks : SaveEntities(<<entity>>, <<>>)
    \/ \E entity_id \in PutIds, objects \in ListsUpTo(PutObjects, MaxObjects) :
          Put(entity_id, objects)
    \/ Return

SpecPut == Init /\ [][NextPut]_vars

-----------------------------------------------------------------------------
(* X-OCCI-Attribute headers: occi/http/utils.py and HttpAttributeHeaders *)

\* Here a Python string is the sequence of its characters.
quotechar == "\""

escapechar == "\\"

\* None where a string is expected: it equals no string.
NoneString == <<"None">>

RECURSIVE escape_quotes_only(_)
\* escape_quotes that escapes the quote character only.
escape_quotes_only(s) ==
    IF s = <<>> THEN <<>>
    ELSE (IF Head(s) = quotechar THEN <<escapechar>> ELSE <<>>)
             \o <<Head(s)>> \o escape_quotes_only(Tail(s))

RECURSIVE escape_quotes(_)
\* escape_quotes(s): the escape character before every quote and every
\* escape character.
escape_quotes(s) ==
    IF s = <<>> THEN <<>>
    ELSE (IF Head(s) = quotechar \/ Head(s) = escapechar THEN <<escapechar>> ELSE <<>>)
             \o <<Head(s)>> \o escape_quotes(Tail(s))

RECURSIVE split_quoted_loop(_, _, _, _, _, _, _, _, _)
\* The loop of split_quoted over the characters of s.  `has` is false while
\* buf is None.
split_quoted_loop(s, i, delimiter, remove_quotes, l, quote, escape, has, buf) ==
    IF i > Len(s) THEN (IF has THEN Append(l, buf) ELSE l)
    ELSE LET c == s[i]
         IN  IF c = escapechar
             THEN IF ~escape /\ remove_quotes
                  THEN split_quoted_loop(s, i + 1, delimiter, remove_quotes,
                                         l, quote, TRUE, TRUE, buf)
                  ELSE split_quoted_loop(s, i + 1, delimiter, remove_quotes,
                                         l, quote, ~escape, TRUE, Append(buf, c))
             ELSE IF c = quotechar /\ ~escape
             THEN IF remove_quotes
                  THEN split_quoted_loop(s, i + 1, delimiter, remove_quotes,
                                         l, ~quote, escape, TRUE, buf)
                  ELSE split_quoted_loop(s, i + 1, delimiter, remove_quotes,
                                         l, ~quote, escape, TRUE, Append(buf, c))
             ELSE IF c = delimiter /\ ~escape /\ ~quote
             THEN split_quoted_loop(s, i + 1, delimiter, remove_quotes,
                                    Append(l, IF has THEN buf ELSE NoneString),
                                    quote, escape, FALSE, <<>>)
             ELSE split_quoted_loop(s, i + 1, delimiter, remove_quotes,
                                    l, quote, FALSE, TRUE, Append(buf, c))

\* split_quoted(s, delimiter=delimiter, remove_quotes=remove_quotes)
split_quoted(s, delimiter, remove_quotes) ==
    split_quoted_loop(s, 1, delimiter, remove_quotes, <<>>, FALSE, FALSE, FALSE, <<>>)

RECURSIVE strip(_)
\* str.strip(), the space being the only whitespace the model has.
strip(s) ==
    IF s = <<>> THEN s
    ELSE IF Head(s) = " " THEN strip(Tail(s))
    ELSE IF s[Len(s)] = " " THEN strip(SubSeq(s, 1, Len(s) - 1))
    ELSE s

\* HttpAttributeHeaders._to_string(header): '%s="%s"' % (k, escape_quotes(str(v)))
header_to_string(header) ==
    header[1] \o <<"=", quotechar>> \o escape_quotes(header[2]) \o <<quotechar>>

RECURSIVE headers_str(_)
\* HttpHeadersBase.__str__: ', '.join(self.headers())
headers_str(headers) ==
    IF headers = <<>> THEN <<>>
    ELSE IF Len(headers) = 1 THEN header_to_string(headers[1])
    ELSE header_to_string(headers[1]) \o <<",", " ">> \o headers_str(Tail(headers))

\* HttpAttributeHeaders._from_string(s): k, v = split_quoted(s, delimiter='=',
\* remove_quotes=True); anything but two parts is a ValueError, raised as
\* HttpHeaderError.
header_from_string(s) ==
    LET parts == split_quoted(s, "=", TRUE)
    IN  IF Len(parts) = 2 THEN [value |-> <<parts[1], parts[2]>>, exc |-> NoExc]
        ELSE [value |-> <<>>, exc |-> Exc("HttpHeaderError", "")]

\* HttpHeadersBase.parse(header_value): _from_string(value.strip()) for every
\* value of split_quoted(header_value); None has no strip.
headers_parse(header_value) ==
    LET values == split_quoted(header_value, ",", FALSE)
        parsed == [i \in DOMAIN values |-> header_from_string(strip(values[i]))]
    IN  IF \E i \in DOMAIN values : values[i] = NoneString
        THEN [value |-> <<>>, exc |-> Exc("AttributeError", "strip")]
        ELSE IF \E i \in DOMAIN parsed : parsed[i].exc # NoExc
        THEN [value |-> <<>>, exc |-> Exc("HttpHeaderError", "")]
        ELSE [value |-> [i \in DOMAIN parsed |-> parsed[i].value], exc |-> NoExc]

\* The longest attribute value rendered.
MaxValue == 3

\* h = HttpAttributeHeaders() with these pairs added; h.parse(str(h))
ParseRendered(headers) ==
    LET r == headers_parse(headers_str(headers))
    IN  /\ result = Idle
        /\ result' = [op |-> "parse", exc |-> r.exc, value |-> r.value, arg |-> headers]
        /\ UNCHANGED <<regVars, entVars, storeVars, reqVars>>

\* The characters of attribute values: the quote, the backslash, the
\* delimiters of the header grammar, the space and a letter.
ValueChars == {quotechar, escapechar, ",", ";", "=", " ", "a"}

\* The attribute lists rendered: one pair with a value of up to MaxValue
\* characters, or two pairs with shorter values, the second the shorter.
RenderedHeaders ==
    {<<>>}
    \cup {<<(<<(<<"k">>), v>>)>> : v \in ListsUpTo(ValueChars, MaxValue)}
    \cup {<<(<<(<<"k">>), v>>), (<<(<<"l">>), w>>)>> :
             v \in ListsUpTo(ValueChars, MaxValue - 1),
             w \in ListsUpTo(ValueChars, MaxValue - 2)}

NextHeaders ==
    \/ result = Idle /\ \E headers \in RenderedHeaders : ParseRendered(headers)
    \/ Return

SpecHeaders == Init /\ [][NextHeaders]_vars

-----------------------------------------------------------------------------
(* C1: locations are owned by at most one registered category *)

\* The identifiers of the registered categories that declare location `loc`.
LocationOwners(loc) ==
    {s \in DOMAIN categories :
        HasLocation(categories[s]) /\ categories[s].location = loc}

\* No two registered categories declare the same location, and the location
\* dict names exactly the registered categories that declare one.
LocationsUnique ==
    /\ \A s1, s2 \in DOMAIN categories :
          (/\ HasLocation(categories[s1]) /\ HasLocation(categories[s2])
           /\ categories[s1].location = categories[s2].location) => s1 = s2
    /\ \A loc \in DOMAIN locations : LocationOwners(loc) = {str(locations[loc])}

\* `category` is registered (the registry holds this very definition).
IsRegistered(cats, category) ==
    str(category) \in DOMAIN cats /\ cats[str(category)] = category

\* register(category) is called while its location belongs to a registered
\* category with another identifier.
LocationTaken(category) ==
    /\ HasLocation(category)
    /\ category.location \in DOMAIN locations
    /\ str(locations[category.location]) # str(category)

RECURSIVE Cascade(_, _)
\* The identifiers unregister can reach from those in `seen`: through the
\* registered definitions, the identifiers of their Actions.
Cascade(cats, seen) ==
    LET more == UNION {{str(cats[s].actions[i]) : i \in 1..Len(cats[s].actions)} :
                          s \in {x \in seen \cap DOMAIN cats : HasActions(cats[x])}}
    IN  IF more \subseteq seen THEN seen ELSE Cascade(cats, seen \cup more)

\* C1 as stated: at most one registered category owns a location, and
\* register(c) with a location owned by a registered category of another
\* identifier raises Category.Invalid and leaves c unregistered.
C1_TakenLocationRejected ==
    /\ []LocationsUnique
    /\ [][(result'.op = "register" /\ LocationTaken(result'.arg))
            => /\ result'.exc.type = "Category.Invalid"
               /\ ~IsRegistered(categories', result'.arg)]_vars

\* C1 (amended): at most one registered category owns a location, and
\* register(c) with a location owned by a registered category of another
\* identifier, one that replacing the previous registration of c's identifier
\* (with its Actions) does not unregister, raises Category.Invalid and leaves
\* c unregistered.
C1_SurvivingOwnerRejects ==
    /\ []LocationsUnique
    /\ [][(/\ result'.op = "register"
            /\ LocationTaken(result'.arg)
            /\ str(locations[result'.arg.location])
                   \notin Cascade(categories, {str(result'.arg)}))
            => /\ result'.exc.type = "Category.Invalid"
               /\ ~IsRegistered(categories', result'.arg)]_vars

\* register was refused because another registered category owns the location.
C1_Witness ==
    /\ result.op = "register"
    /\ result.exc = Exc("Category.Invalid", "location path already defined")
    /\ result.arg.location \in DOMAIN locations
    /\ str(locations[result.arg.location]) # str(result.arg)
    /\ ~IsRegistered(categories, result.arg)


-----------------------------------------------------------------------------
(* C2: an entity has exactly one Kind *)

\* The positions of list_occi_categories() that hold a Kind.
KindPositions(e) ==
    {i \in DOMAIN list_occi_categories(e) : list_occi_categories(e)[i].cls = "Kind"}

\* The Kinds list_occi_categories() contains.
KindsListed(e) == {list_occi_categories(e)[i] : i \in KindPositions(e)}

\* C2: list_occi_categories() of a constructed entity holds exactly one Kind,
\* the one the constructor was given, and otherwise only Mixins, whatever
\* add_occi_mixin, remove_occi_mixin and set_occi_attributes calls were made
\* and whether or not they raised.
C2_ExactlyOneKind ==
    /\ [](Constructed =>
            /\ Cardinality(KindPositions(Self)) = 1
            /\ \A i \in DOMAIN list_occi_categories(Self) \ KindPositions(Self) :
                  list_occi_categories(Self)[i].cls = "Mixin")
    /\ [][/\ (result'.op = "Entity" /\ result'.exc = NoExc)
             => (KindsListed(Self)' = {result'.arg})
          /\ Constructed => (KindsListed(Self)' = KindsListed(Self))]_vars

\* A Mixin has been detached from a Link that holds attributes: the Link is
\* all that list_occi_categories() has left.
C2_Witness ==
    /\ result.op = "remove_occi_mixin"
    /\ result.exc = NoExc
    /\ "source" \in DOMAIN occi_attributes
    /\ list_occi_categories(Self) = <<LinkKind>>

-----------------------------------------------------------------------------
(* The attribute lists of set_occi_attributes *)

\* The attributes the entity's categories define, in the order
\* set_occi_attributes visits them.
Declared(e) == AllAttributes(list_occi_categories(e), 1)

DeclaredNames(e) == {Declared(e)[i].name : i \in DOMAIN Declared(e)}

\* The names an attribute list gives a value.
Names(attr_list) == {attr_list[i][1] : i \in DOMAIN attr_list}

\* Some name occurs more than once in the list.
HasDuplicate(attr_list) ==
    \E i, j \in DOMAIN attr_list : i # j /\ attr_list[i][1] = attr_list[j][1]

\* The value a list without repeated names gives `name`.
Supplied(attr_list, name) ==
    attr_list[CHOOSE i \in DOMAIN attr_list : attr_list[i][1] = name][2]

\* Where the loop over the entity's attributes meets `name`.
Position(e, name) == CHOOSE i \in DOMAIN Declared(e) : Declared(e)[i].name = name

\* The exception was raised for an attribute the loop visits before `name`.
RaisedBefore(e, exc, name) ==
    /\ exc.type \in {"ImmutableAttribute", "RequiredAttribute", "Attribute.Invalid"}
    /\ Position(e, exc.item) < Position(e, name)

\* The entity is between calls.
AtRest == Constructed /\ result = Idle

-----------------------------------------------------------------------------
(* C3: write-once attributes *)

\* A validated import leaves the stored value of every attribute declared
\* mutable=false as it was.
ImmutableKept ==
    (result'.op = "set_occi_attributes" /\ result'.arg = TRUE)
    => \A i \in DOMAIN Declared(Self) :
          (~Declared(Self)[i].mutable /\ Declared(Self)[i].name \in DOMAIN occi_attributes)
          => /\ Declared(Self)[i].name \in DOMAIN occi_attributes'
             /\ occi_attributes'[Declared(Self)[i].name]
                    = occi_attributes[Declared(Self)[i].name]

\* A validated import of a list that names the required, mutable attribute
\* `a` is not refused for it, and stores the value when it returns.
SetRepeatedly(a, attr_list) ==
    LET r == set_occi_attributes(Self, attr_list, TRUE)
    IN  /\ r.exc # Exc("ImmutableAttribute", a.name)
        /\ r.exc = NoExc
           => r.occi_attributes[a.name] = from_string(a, Supplied(attr_list, a.name)).value

\* C3 as stated: a validated import never changes the stored value of an
\* immutable attribute; a required, immutable attribute is stored by the
\* first validated import that names it and every later one raises
\* ImmutableAttribute; a required, mutable attribute can be set again.
C3_LaterImportImmutable ==
    /\ [][ImmutableKept]_vars
    /\ [](AtRest =>
            \A attr_list \in AttrLists : \A i \in DOMAIN Declared(Self) :
               LET a == Declared(Self)[i]
                   r == set_occi_attributes(Self, attr_list, TRUE)
               IN  (a.required /\ a.name \in Names(attr_list))
                   => IF a.mutable THEN SetRepeatedly(a, attr_list)
                      ELSE IF a.name \in DOMAIN occi_attributes
                      THEN r.exc = Exc("ImmutableAttribute", a.name)
                      ELSE /\ a.name \in DOMAIN r.occi_attributes
                           /\ r.occi_attributes[a.name] = Supplied(attr_list, a.name))

\* C3, amended: the same for the lists that repeat no name (the others raise
\* DuplicateAttribute and store nothing), and as long as no attribute visited
\* earlier has raised.
C3_WriteOnce ==
    /\ [][ImmutableKept]_vars
    /\ [](AtRest =>
            \A attr_list \in AttrLists : \A i \in DOMAIN Declared(Self) :
               LET a == Declared(Self)[i]
                   r == set_occi_attributes(Self, attr_list, TRUE)
               IN  (a.required /\ a.name \in Names(attr_list))
                   => IF a.mutable THEN SetRepeatedly(a, attr_list)
                      ELSE IF HasDuplicate(attr_list)
                      THEN /\ r.exc.type = "DuplicateAttribute"
                           /\ r.occi_attributes = occi_attributes
                      ELSE IF RaisedBefore(Self, r.exc, a.name)
                      THEN a.name \in DOMAIN occi_attributes
                           => r.occi_attributes[a.name] = occi_attributes[a.name]
                      ELSE IF a.name \in DOMAIN occi_attributes
                      THEN r.exc = Exc("ImmutableAttribute", a.name)
                      ELSE /\ a.name \in DOMAIN r.occi_attributes
                           /\ r.occi_attributes[a.name] = Supplied(attr_list, a.name))

\* A validated import has just been refused for the Link's source, set
\* before, on a Link whose target holds another value than its source.
C3_Witness ==
    /\ result.op = "set_occi_attributes"
    /\ result.arg = TRUE
    /\ result.exc = Exc("ImmutableAttribute", "source")
    /\ "source" \in DOMAIN occi_attributes
    /\ "target" \in DOMAIN occi_attributes
    /\ occi_attributes["target"] # occi_attributes["source"]

-----------------------------------------------------------------------------
(* C4: stored attributes and the categories that define them *)

\* C4 as stated: every stored attribute name is defined by the entity's Kind
\* or by one of the Mixins attached to it.
C4_StoredAreDeclared ==
    Constructed => DOMAIN occi_attributes \subseteq DeclaredNames(Self)

-----------------------------------------------------------------------------
(* C5: repeated names *)

\* C5: an import of a list in which a name occurs more than once raises
\* DuplicateAttribute, validated or not, and leaves the attribute storage as
\* it was.
C5_DuplicateRejected ==
    AtRest =>
        \A attr_list \in AttrLists, validate \in BOOLEAN :
            HasDuplicate(attr_list)
            => LET r == set_occi_attributes(Self, attr_list, validate)
               IN  /\ r.exc.type = "DuplicateAttribute"
                   /\ r.exc.item \in Names(attr_list)
                   /\ r.occi_attributes = occi_attributes

\* An unvalidated import has just raised DuplicateAttribute on an entity that
\* holds attributes.
C5_Witness ==
    /\ result.op = "set_occi_attributes"
    /\ result.arg = FALSE
    /\ result.exc.type = "DuplicateAttribute"
    /\ DOMAIN occi_attributes # {}

-----------------------------------------------------------------------------
(* C6: required attributes *)

\* The required attributes with neither a stored nor a supplied value.
Missing(e, attr_list) ==
    {Declared(e)[i].name : i \in
        {j \in DOMAIN Declared(e) :
            /\ Declared(e)[j].required
            /\ Declared(e)[j].name \notin DOMAIN e.occi_attributes
            /\ Declared(e)[j].name \notin Names(attr_list)}}

\* The one of them the loop visits first.
FirstMissing(e, attr_list) ==
    CHOOSE name \in Missing(e, attr_list) :
        \A other \in Missing(e, attr_list) : Position(e, name) <= Position(e, other)

\* After a validated import that returned, every required attribute of the
\* entity's Kind and Mixins has a stored value.
RequiredStored ==
    (result'.op = "set_occi_attributes" /\ result'.arg = TRUE /\ result'.exc = NoExc)
    => \A i \in DOMAIN Declared(Self)' :
          Declared(Self)'[i].required => Declared(Self)'[i].name \in DOMAIN occi_attributes'

\* C6 as stated: a validated import that returns leaves every required
\* attribute stored, and one called while a required attribute is neither
\* stored nor supplied raises RequiredAttribute naming such an attribute.
C6_MissingRaisesRequired ==
    /\ [][RequiredStored]_vars
    /\ [](AtRest =>
            \A attr_list \in AttrLists :
               LET r == set_occi_attributes(Self, attr_list, TRUE)
               IN  Missing(Self, attr_list) # {}
                   => /\ r.exc.type = "RequiredAttribute"
                      /\ r.exc.item \in Missing(Self, attr_list))

\* C6, amended: such an import raises; RequiredAttribute naming the first
\* missing attribute, unless the list repeats a name (DuplicateAttribute) or
\* an attribute visited before that one is refused (ImmutableAttribute,
\* Attribute.Invalid).
C6_RequiredComplete ==
    /\ [][RequiredStored]_vars
    /\ [](AtRest =>
            \A attr_list \in AttrLists :
               LET r == set_occi_attributes(Self, attr_list, TRUE)
               IN  Missing(Self, attr_list) # {}
                   => IF HasDuplicate(attr_list)
                      THEN r.exc.type = "DuplicateAttribute"
                      ELSE IF RaisedBefore(Self, r.exc, FirstMissing(Self, attr_list))
                      THEN r.exc.type \in {"ImmutableAttribute", "Attribute.Invalid"}
                      ELSE r.exc = Exc("RequiredAttribute", FirstMissing(Self, attr_list)))

\* A validated import that did not supply the Link's target has just raised
\* RequiredAttribute for it.
C6_Witness ==
    /\ result.op = "set_occi_attributes"
    /\ result.arg = TRUE
    /\ result.exc = Exc("RequiredAttribute", "target")
    /\ "target" \notin DOMAIN occi_attributes

-----------------------------------------------------------------------------
(* C7: imports without validation *)

\* The supplied value of some attribute the entity declares does not convert.
SomeInvalid(e, attr_list) ==
    \E i \in DOMAIN Declared(e) :
        /\ Declared(e)[i].name \in Names(attr_list)
        /\ from_string(Declared(e)[i], Supplied(attr_list, Declared(e)[i].name)).exc # NoExc

\* An unvalidated import never raises ImmutableAttribute or
\* RequiredAttribute; when it returns, every supplied value is stored,
\* whatever was stored before; a repeated name raises DuplicateAttribute.
Unvalidated(attr_list) ==
    LET r == set_occi_attributes(Self, attr_list, FALSE)
    IN  /\ r.exc.type \notin {"ImmutableAttribute", "RequiredAttribute"}
        /\ HasDuplicate(attr_list) => r.exc.type = "DuplicateAttribute"
        /\ r.exc = NoExc
           => \A i \in DOMAIN Declared(Self) :
                 Declared(Self)[i].name \in Names(attr_list)
                 => r.occi_attributes[Declared(Self)[i].name]
                       = from_string(Declared(Self)[i],
                                     Supplied(attr_list, Declared(Self)[i].name)).value

\* C7 as stated: that, and a list without repeated names that gives a name
\* no category of the entity declares raises UnknownAttribute.
C7_UnknownAlwaysReported ==
    AtRest =>
        \A attr_list \in AttrLists :
            /\ Unvalidated(attr_list)
            /\ (~HasDuplicate(attr_list) /\ ~(Names(attr_list) \subseteq DeclaredNames(Self)))
               => set_occi_attributes(Self, attr_list, FALSE).exc.type = "UnknownAttribute"

\* C7, amended: such a list raises UnknownAttribute when every value supplied
\* for a declared attribute converts, and Attribute.Invalid when one does not.
C7_ValidateFalse ==
    AtRest =>
        \A attr_list \in AttrLists :
            /\ Unvalidated(attr_list)
            /\ (~HasDuplicate(attr_list) /\ ~(Names(attr_list) \subseteq DeclaredNames(Self)))
               => set_occi_attributes(Self, attr_list, FALSE).exc.type
                     = IF SomeInvalid(Self, attr_list) THEN "Attribute.Invalid"
                       ELSE "UnknownAttribute"

\* An unvalidated import has just raised UnknownAttribute on a Link whose
\* required target has no value.
C7_Witness ==
    /\ result.op = "set_occi_attributes"
    /\ result.arg = FALSE
    /\ result.exc.type = "UnknownAttribute"
    /\ "source" \in DOMAIN occi_attributes
    /\ "target" \notin DOMAIN occi_attributes

-----------------------------------------------------------------------------
(* C8: which attributes a validated import may set *)

\* The attribute is mutable, or required and without a stored value.
Acceptable(a) == a.mutable \/ (a.required /\ a.name \notin DOMAIN occi_attributes)

\* The import left the stored value of `name` as it was.
Untouched(r, name) ==
    IF name \in DOMAIN occi_attributes
    THEN name \in DOMAIN r.occi_attributes /\ r.occi_attributes[name] = occi_attributes[name]
    ELSE name \notin DOMAIN r.occi_attributes

\* C8 as stated: a validated import stores the value supplied for a declared
\* attribute when the attribute is mutable, or required and not yet stored,
\* and in every other case raises ImmutableAttribute for it.
C8_AcceptedOrImmutable ==
    AtRest =>
        \A attr_list \in AttrLists : \A i \in DOMAIN Declared(Self) :
            LET a == Declared(Self)[i]
                r == set_occi_attributes(Self, attr_list, TRUE)
            IN  a.name \in Names(attr_list)
                => IF Acceptable(a)
                   THEN /\ a.name \in DOMAIN r.occi_attributes
                        /\ r.occi_attributes[a.name]
                              = from_string(a, Supplied(attr_list, a.name)).value
                   ELSE /\ r.exc = Exc("ImmutableAttribute", a.name)
                        /\ Untouched(r, a.name)

\* C8, amended: the same once the loop reaches the attribute, that is for a
\* list without repeated names and when no attribute visited earlier raised;
\* and an acceptable value is stored when it converts, and raises
\* Attribute.Invalid when it does not.
C8_AcceptanceRule ==
    AtRest =>
        \A attr_list \in AttrLists : \A i \in DOMAIN Declared(Self) :
            LET a == Declared(Self)[i]
                r == set_occi_attributes(Self, attr_list, TRUE)
                conv == from_string(a, Supplied(attr_list, a.name))
            IN  a.name \in Names(attr_list)
                => IF HasDuplicate(attr_list)
                   THEN r.exc.type = "DuplicateAttribute" /\ Untouched(r, a.name)
                   ELSE IF RaisedBefore(Self, r.exc, a.name)
                   THEN Untouched(r, a.name)
                   ELSE IF ~Acceptable(a)
                   THEN r.exc = Exc("ImmutableAttribute", a.name) /\ Untouched(r, a.name)
                   ELSE IF conv.exc # NoExc
                   THEN r.exc = conv.exc /\ Untouched(r, a.name)
                   ELSE /\ a.name \in DOMAIN r.occi_attributes
                        /\ r.occi_attributes[a.name] = conv.value

\* A validated import has just been refused the first value ever supplied
\* for an attribute that is neither required nor mutable.
C8_Witness ==
    /\ result.op = "set_occi_attributes"
    /\ result.arg = TRUE
    /\ result.exc = Exc("ImmutableAttribute", "com.example.state")
    /\ "com.example.state" \notin DOMAIN occi_attributes

-----------------------------------------------------------------------------
(* C9: the Actions available to an entity *)

\* The identifiers of the Actions the entity's Kind and attached Mixins
\* declare.
DeclaredActions(e) ==
    UNION {{str(list_occi_categories(e)[i].actions[j]) :
               j \in DOMAIN list_occi_categories(e)[i].actions} :
           i \in DOMAIN list_occi_categories(e)}

\* C9 as stated: occi_list_actions() is the union of the Actions declared by
\* the entity's Kind and by the Mixins attached to it.
C9_AvailableAreDeclared ==
    Constructed => occi_list_actions(Self) = DeclaredActions(Self)

-----------------------------------------------------------------------------
(* C10: detaching a Mixin *)

\* The identifiers of the Actions `category` declares.
ActionsOf(category) == {str(category.actions[j]) : j \in DOMAIN category.actions}

\* C10: remove_occi_mixin(m) raises UnknownCategory and changes nothing when
\* m is not attached; otherwise it detaches m alone and takes every Action m
\* declares out of the available and the applicable sets.
C10_RemoveMixin ==
    [][result'.op = "remove_occi_mixin"
       => IF str(result'.arg) \notin DOMAIN occi_mixins
          THEN /\ result'.exc.type = "UnknownCategory"
               /\ UNCHANGED entVars
          ELSE /\ result'.exc = NoExc
               /\ occi_mixins' = DictPop(occi_mixins, str(result'.arg))
               /\ occi_list_actions(Self)' \cap ActionsOf(result'.arg) = {}
               /\ actions_applicable' \cap ActionsOf(result'.arg) = {}
               /\ occi_kind' = occi_kind]_vars

\* barMixin has just been detached from an entity that keeps fooMixin; the
\* `stop` Action the two declare is no longer available.
C10_Witness ==
    /\ result.op = "remove_occi_mixin"
    /\ result.arg = barMixin
    /\ result.exc = NoExc
    /\ DOMAIN occi_mixins = {str(fooMixin)}
    /\ str(stopAction) \notin occi_list_actions(Self)

-----------------------------------------------------------------------------
(* C11: Actions that are not available cannot be made applicable *)

\* C11: occi_set_applicable_action(a, applicable) raises UnknownCategory for
\* an Action category that is not available to the entity, whatever
\* `applicable` is, and leaves the applicable set as it was; an entity that
\* has just been constructed has no applicable Action.
C11_UnavailableRejected ==
    /\ [](AtRest =>
            \A action_category \in ActionCategories, applicable \in BOOLEAN :
               str(action_category) \notin occi_list_actions(Self)
               => LET r == occi_set_applicable_action(Self, action_category, applicable)
                  IN  /\ r.exc.type = "UnknownCategory"
                      /\ r.actions_applicable = actions_applicable
                      /\ r.actions_available = actions_available)
    /\ [][(result'.op = "Entity" /\ result'.exc = NoExc)
            => actions_applicable' = {}]_vars

\* `stop` has just been refused on an entity whose `start` Action is
\* applicable.
C11_Witness ==
    /\ result.op = "occi_set_applicable_action"
    /\ result.arg = stopAction
    /\ result.exc.type = "UnknownCategory"
    /\ actions_applicable = {str(startAction)}

-----------------------------------------------------------------------------
(* C12: what unregister removes *)

\* The registry after the step.
RegistryAfter == Registry(categories', locations')

\* C12: after unregister(k) has returned for a registered Kind or Mixin k,
\* lookup_id raises Category.DoesNotExist for k and for every Action category
\* of k.actions, and lookup_location finds nothing at k's location.
C12_UnregisterCascades ==
    [][(/\ result'.op = "unregister"
        /\ result'.exc = NoExc
        /\ result'.arg.cls \in {"Kind", "Mixin"}
        /\ IsRegistered(categories, result'.arg))
       => /\ lookup_id(RegistryAfter, str(result'.arg)).exc.type = "Category.DoesNotExist"
          /\ \A i \in DOMAIN result'.arg.actions :
                lookup_id(RegistryAfter, str(result'.arg.actions[i])).exc.type
                   = "Category.DoesNotExist"
          /\ HasLocation(result'.arg)
             => lookup_location(RegistryAfter, result'.arg.location) = None]_vars

\* NetworkKind has just been unregistered: its `up` and `down` Actions and
\* its location went with it.
C12_Witness ==
    /\ result.op = "unregister"
    /\ result.arg = NetworkKind
    /\ result.exc = NoExc
    /\ {str(NetworkKind), str(NetworkUpActionCategory), str(NetworkDownActionCategory)}
          \cap DOMAIN categories = {}
    /\ "network/" \notin DOMAIN locations

-----------------------------------------------------------------------------
(* C13: unregister of an identifier that is not registered *)

\* unregister(c) for an identifier that is not registered leaves the two
\* dicts of the registry as they were.
AbsentUnchanged ==
    (result'.op = "unregister" /\ str(result'.arg) \notin DOMAIN categories)
    => UNCHANGED regVars

\* C13 as stated: unregister(c) for an identifier that is not registered
\* raises Category.DoesNotExist, as lookup_id does for that identifier, and
\* leaves the registry unchanged.
C13_AbsentDoesNotExist ==
    [][/\ AbsentUnchanged
       /\ (result'.op = "unregister" /\ str(result'.arg) \notin DOMAIN categories)
          => /\ result'.exc.type = "Category.DoesNotExist"
             /\ result'.exc.type
                   = lookup_id(Registry(categories, locations), str(result'.arg)).exc.type]_vars

\* C13, amended: it raises Category.Invalid ("Category not registered"),
\* which is not the exception lookup_id raises for that identifier, and
\* leaves the registry unchanged.
C13_AbsentInvalid ==
    [][/\ AbsentUnchanged
       /\ (result'.op = "unregister" /\ str(result'.arg) \notin DOMAIN categories)
          => /\ result'.exc = Exc("Category.Invalid", "Category not registered")
             /\ lookup_id(Registry(categories, locations), str(result'.arg)).exc.type
                   = "Category.DoesNotExist"]_vars

\* unregister has just been refused for IPNetworkMixin, which is not
\* registered, while NetworkKind is.
C13_Witness ==
    /\ result.op = "unregister"
    /\ result.arg = IPNetworkMixin
    /\ result.exc = Exc("Category.Invalid", "Category not registered")
    /\ str(IPNetworkMixin) \notin DOMAIN categories
    /\ str(NetworkKind) \in DOMAIN categories

-----------------------------------------------------------------------------
(* C14: save_to_entity and the Kind of the entity it is passed *)

\* What the categories of the call that has just returned resolve to, in the
\* registry the call was passed.
Resolved ==
    resolve_categories(result'.arg.categories,
                       IF result'.arg.registry THEN Registry(categories, locations)
                       ELSE None,
                       1, None, <<>>)

\* C14: save_to_entity(entity=e) leaves the Kind of e as it is; when the
\* categories resolve to a Kind with another identifier than e's Kind, it
\* raises DataObject.Invalid and leaves the Mixins and attributes of e as
\* they are.
C14_KindNeverChanged ==
    [][(result'.op = "save_to_entity" /\ result'.arg.entity)
       => /\ occi_kind' = occi_kind
          /\ (/\ Resolved.exc = NoExc
              /\ Resolved.kind # None
              /\ str(Resolved.kind) # str(occi_kind))
             => /\ result'.exc.type = "DataObject.Invalid"
                /\ occi_mixins' = occi_mixins
                /\ occi_attributes' = occi_attributes]_vars

\* save_to_entity has just refused to make a Resource, with a Mixin, of a
\* Link that holds attributes.
C14_Witness ==
    /\ result.op = "save_to_entity"
    /\ result.arg.entity
    /\ result.arg.categories = <<ResourceKind, fooMixin>>
    /\ result.exc = Exc("DataObject.Invalid", "Cannot change Kind of existing Entity")
    /\ occi_kind = LinkKind
    /\ occi_mixins = EmptyDict
    /\ "source" \in DOMAIN occi_attributes

-----------------------------------------------------------------------------
(* C15: one Kind per DataObject *)

\* The identifiers of the Kinds in a list of categories.
KindsOf(cats) == {str(cats[i]) : i \in {j \in DOMAIN cats : cats[j].cls = "Kind"}}

\* C15: save_to_entity raises DataObject.Invalid, and neither makes nor
\* changes an entity, when its categories hold more than one Kind; it raises
\* DataObject.Invalid when it is passed no entity and no Kind resolves; and
\* an entity it returns has exactly one Kind.
C15_OneKindOrInvalid ==
    [][result'.op = "save_to_entity"
       => /\ Cardinality(KindsOf(result'.arg.categories)) > 1
             => (result'.exc.type = "DataObject.Invalid" /\ UNCHANGED entVars)
          /\ (~result'.arg.entity /\ (Resolved.exc # NoExc \/ Resolved.kind = None))
             => (result'.exc.type = "DataObject.Invalid" /\ UNCHANGED entVars)
          /\ result'.exc = NoExc
             => (Constructed' /\ Cardinality(KindPositions(Self)') = 1)]_vars

\* save_to_entity has just refused categories that name the Link and the
\* Resource Kind, for an entity that has a Mixin.
C15_Witness ==
    /\ result.op = "save_to_entity"
    /\ result.arg.categories = <<LinkKind, ResourceKind>>
    /\ result.exc = Exc("DataObject.Invalid", "Only one Kind allowed to define a resource")
    /\ occi_kind = LinkKind
    /\ DOMAIN occi_mixins = {str(fooMixin)}

-----------------------------------------------------------------------------
(* C16: the parameters of an Action *)

\* The category the call that has just returned builds its Action from, when
\* the request names one category and it resolves.
ActionCategory ==
    IF result.arg.registry THEN categories[str(result.arg.categories[1])]
    ELSE result.arg.categories[1]

ActionResolves ==
    /\ Len(result.arg.categories) = 1
    /\ result.arg.registry => str(result.arg.categories[1]) \in DOMAIN categories

\* The names the parameters of an Action category may take, and the ones
\* they must.
ParamDeclared(category) == {category.attributes[i].name : i \in DOMAIN category.attributes}

ParamRequired(category) ==
    {category.attributes[i].name :
        i \in {j \in DOMAIN category.attributes : category.attributes[j].required}}

\* C16: save_as_action with a repeated parameter name, without a required
\* parameter, or with a parameter the Action category does not declare,
\* returns no Action and raises DataObject.Invalid.
C16_ParametersValidated ==
    (result.op = "save_as_action" /\ ActionResolves)
    => ((\/ HasDuplicate(result.arg.attributes)
         \/ ~(ParamRequired(ActionCategory) \subseteq Names(result.arg.attributes))
         \/ ~(Names(result.arg.attributes) \subseteq ParamDeclared(ActionCategory)))
        => (result.value = None /\ result.exc.type = "DataObject.Invalid"))

-----------------------------------------------------------------------------
(* C17: deleting a Resource and its Links *)

\* The call that has just returned was save_entities with nothing to save and
\* the id of one stored Resource to delete, and it raised nothing.
ResourceDeleted ==
    /\ result'.op = "save_entities"
    /\ result'.exc = NoExc
    /\ result'.arg.entities = <<>>
    /\ Len(result'.arg.delete_entity_ids) = 1
    /\ str_id(result'.arg.delete_entity_ids[1]) \in DOMAIN db
    /\ IsResource(db[str_id(result'.arg.delete_entity_ids[1])])

\* C17: after the store has deleted a Resource, get_entity raises
\* DoesNotExist for every Link that was in its links list and
\* filter_entities does not return it.
C17_LinksDeletedWithResource ==
    [][ResourceDeleted
       => LET links == db[str_id(result'.arg.delete_entity_ids[1])].links
          IN  \A i \in DOMAIN links :
                  /\ get_entity(db', links[i]).exc.type = "Entity.DoesNotExist"
                  /\ str_id(links[i]) \notin filter_entities(db', <<>>, <<>>)]_vars

-----------------------------------------------------------------------------
(* C18: save_entities and failure *)

\* C18: a save_entities that raises leaves the store as it was.
C18_AllOrNothing ==
    [][(result'.op = "save_entities" /\ result'.exc # NoExc) => db' = db]_vars

-----------------------------------------------------------------------------
(* C19: what filter_entities returns *)

\* The entity is of every category of the list.
Carries(e, cats) == \A i \in DOMAIN cats : str(cats[i]) \in occi_list_categories(e)

\* The entity holds, for every pair of the list, the value the pair gives.
Holds(e, attributes) ==
    \A i \in DOMAIN attributes :
        /\ attributes[i][1] \in DOMAIN e.entity.occi_attributes
        /\ e.entity.occi_attributes[attributes[i][1]] = attributes[i][2]

\* C19: filter_entities returns exactly the stored entities that are of every
\* category given and hold every attribute value given; a filter that is not
\* given matches every entity.
C19_FilterIsConjunction ==
    result.op = "filter_entities"
    => result.value = {k \in DOMAIN db : /\ Carries(db[k], result.arg.categories)
                                          /\ Holds(db[k], result.arg.attributes)}

-----------------------------------------------------------------------------
(* C20: two discovery POSTs with one location *)

\* Both requests are answered, and they defined Mixins with different
\* identifiers and the same location.
BothAnswered(p, q) ==
    /\ p # q
    /\ requests[p].pc = "done"
    /\ requests[q].pc = "done"
    /\ str(requests[p].category) # str(requests[q].category)
    /\ requests[p].category.location # ""
    /\ url_strip(requests[p].category.location) = url_strip(requests[q].category.location)

\* C20: of two concurrent discovery POSTs that define Mixins with different
\* identifiers and the same location, at most one is answered OK and at most
\* one of the Mixins is registered afterwards.
C20_AtMostOneSucceeds ==
    \A p, q \in Requests :
        BothAnswered(p, q)
        => /\ ~(requests[p].response = "OK" /\ requests[q].response = "OK")
           /\ ~(/\ str(requests[p].category) \in DOMAIN categories
                /\ str(requests[q].category) \in DOMAIN categories)

-----------------------------------------------------------------------------
(* C27: applicable Actions are available *)

\* C27: the applicable Actions of an entity are among its available ones, so
\* occi_list_applicable_actions raises nothing and returns available Actions
\* only.
C27_ApplicableAreAvailable ==
    /\ actions_applicable \subseteq occi_list_actions(Self)
    /\ occi_list_applicable_actions(Self).exc = NoExc
    /\ \A action \in occi_list_applicable_actions(Self).value :
           str(action) \in occi_list_actions(Self)

\* A Mixin has just been detached and has taken `stop` with it, and `start`
\* is still applicable.
C27_Witness ==
    /\ result.op = "remove_occi_mixin"
    /\ result.exc = NoExc
    /\ str(stopAction) \notin occi_list_actions(Self)
    /\ actions_applicable = {str(startAction)}

-----------------------------------------------------------------------------
(* C28: a register that fails *)

\* A dict without the keys outside `keys`.
DictKeep(d, keys) == [x \in DOMAIN d \cap keys |-> d[x]]

\* The identifiers the replacement of `category`'s previous registration
\* unregisters: none when its identifier is not registered.
Replaced(category) ==
    IF str(category) \in DOMAIN categories
    THEN Cascade(categories, {str(category)})
    ELSE {}

\* C28 as stated: a register(c) that fails with Category.Invalid leaves both
\* mappings of the registry as they were before the call.
C28_FailedRegisterChangesNothing ==
    [][(result'.op = "register" /\ result'.exc.type = "Category.Invalid")
         => UNCHANGED regVars]_vars

\* C28 (amended): a register(c) that fails on a location collision leaves c
\* unregistered and the registry as it was before the call less the category
\* previously registered under c's identifier, its location and, by
\* identifier, its Actions; a register(c) that fails on a declared Action
\* that itself declares actions leaves c registered under its identifier and
\* its location.
C28_FailedRegisterReplaces ==
    [][(result'.op = "register")
         => /\ (result'.exc = Exc("Category.Invalid", "location path already defined"))
                 => /\ categories' = DictKeep(categories,
                                              DOMAIN categories \ Replaced(result'.arg))
                    /\ locations' = DictKeep(locations,
                                             {loc \in DOMAIN locations :
                                                 str(locations[loc]) \notin Replaced(result'.arg)})
                    /\ str(result'.arg) \notin DOMAIN categories'
            /\ (result'.exc = Exc("Category.Invalid",
                                  "Only the base Category type allowed to identify Actions"))
                 => /\ IsRegistered(categories', result'.arg)
                    /\ HasLocation(result'.arg)
                         => /\ result'.arg.location \in DOMAIN locations'
                            /\ locations'[result'.arg.location] = result'.arg]_vars

\* register(fooKind) was refused for NetworkKind's location and has left
\* neither its identifier nor NetworkKind's `up` Action registered.
C28_Witness ==
    /\ result.op = "register"
    /\ result.exc = Exc("Category.Invalid", "location path already defined")
    /\ result.arg = fooKind
    /\ IsRegistered(categories, NetworkKind)
    /\ str(NetworkUpActionCategory) \notin DOMAIN categories
    /\ str(fooKind) \notin DOMAIN categories

-----------------------------------------------------------------------------
(* C29: an attribute import that fails *)

\* The exceptions the second loop of set_occi_attributes raises.
ImportErrors ==
    {"ImmutableAttribute", "RequiredAttribute", "UnknownAttribute", "Attribute.Invalid"}

\* The import r of attr_list has stored the supplied value of the declared
\* attribute `name`.
StoredSupplied(r, attr_list, name) ==
    /\ name \in Names(attr_list) \cap DeclaredNames(Self)
    /\ name \in DOMAIN r.occi_attributes
    /\ r.occi_attributes[name]
          = from_string(Declared(Self)[Position(Self, name)], Supplied(attr_list, name)).value

\* C29 as stated: a set_occi_attributes that fails with ImmutableAttribute,
\* RequiredAttribute, UnknownAttribute or Attribute.Invalid leaves the
\* attribute storage as it was.
C29_FailedImportStoresNothing ==
    [][(result'.op = "set_occi_attributes" /\ result'.exc.type \in ImportErrors)
         => occi_attributes' = occi_attributes]_vars

\* C29 (amended): a set_occi_attributes that fails with DuplicateAttribute
\* leaves the attribute storage as it was; one that fails with
\* ImmutableAttribute, RequiredAttribute, UnknownAttribute or
\* Attribute.Invalid keeps what it accepted before it failed: the storage
\* differs from before only in attributes the entity declares and the list
\* names, each holding its supplied value, and after UnknownAttribute every
\* such attribute holds it.
C29_FailedImportKeepsAccepted ==
    AtRest =>
        \A attr_list \in AttrLists, validate \in BOOLEAN :
            LET r == set_occi_attributes(Self, attr_list, validate)
            IN  /\ r.exc.type = "DuplicateAttribute"
                    => r.occi_attributes = occi_attributes
                /\ r.exc.type \in ImportErrors
                    => \A name \in DOMAIN occi_attributes \cup DOMAIN r.occi_attributes :
                          Untouched(r, name) \/ StoredSupplied(r, attr_list, name)
                /\ r.exc.type = "UnknownAttribute"
                    => \A name \in Names(attr_list) \cap DeclaredNames(Self) :
                          StoredSupplied(r, attr_list, name)

\* A validated import has just raised UnknownAttribute on a Link and the
\* source and target it supplied are stored.
C29_Witness ==
    /\ result.op = "set_occi_attributes"
    /\ result.arg = TRUE
    /\ result.exc.type = "UnknownAttribute"
    /\ list_occi_categories(Self) = <<LinkKind>>
    /\ {"source", "target"} \subseteq DOMAIN occi_attributes

-----------------------------------------------------------------------------
(* C30: the ends of a stored Link *)

\* The entity with this id is stored.
Stored(entity_id) == str_id(entity_id) \in DOMAIN db

\* C30: the source and the target of every stored Link are stored, and
\* saving a Link whose source or target is not stored raises DoesNotExist.
C30_LinkEndsStored ==
    /\ \A k \in DOMAIN db :
           IsLink(db[k]) => Stored(db[k].source) /\ Stored(db[k].target)
    /\ \A link \in NewLinks :
           ~(Stored(link.source) /\ Stored(link.target))
           => save_entities(db, uuids, <<link>>, <<>>).exc.type = "Entity.DoesNotExist"

-----------------------------------------------------------------------------
(* C21: the backend's user Mixins and the registry's *)

\* No request is being handled.
Quiescent == \A p \in Requests : requests[p].pc \in {"idle", "done"}

\* The identifiers of the user-defined Mixins the registry holds.
RegisteredUserMixins == {s \in DOMAIN categories : UserDefined(categories[s])}

\* C21: once every discovery POST and DELETE request has been answered, the
\* identifiers in the backend's user-mixin store are those of the
\* user-defined Mixins registered in the registry.
C21_StoresAgree == Quiescent => DOMAIN user_mixins = RegisteredUserMixins

-----------------------------------------------------------------------------
(* C22: what a discovery DELETE unregisters *)

\* The handler of request p takes a step of delete.
DeleteStep(p) ==
    /\ requests[p].pc \in {"delete_lookup_id", "delete_remove_user_category",
                           "unregister", "unregister_del", "unregister_location"}
    /\ requests'[p] # requests[p]

\* The handler of request p is in delete and has changed the backend or the
\* registry.
DeleteChanged(p) ==
    \/ requests[p].pc \in {"unregister", "unregister_del", "unregister_location"}
    \/ requests[p].pc = "delete_remove_user_category" /\ requests[p].i > 1

\* The identifiers and the locations of the categories request p names.
NamedIds(p) == {str(requests[p].named[i]) : i \in DOMAIN requests[p].named}

\* The locations of the Mixins request p found under the names.
NamedLocations(p) == {requests[p].mixins[i].location : i \in DOMAIN requests[p].mixins}

\* The category the first loop of delete looks up next is not registered, or
\* is not a user-defined Mixin.
NotUserDefined(p) ==
    LET s == str(requests[p].named[Len(requests[p].mixins) + 1])
    IN  s \notin DOMAIN categories \/ ~UserDefined(categories[s])

\* C22: a discovery DELETE unregisters nothing but user-defined Mixins it
\* names and frees nothing but their locations; a DELETE that names a
\* category that is not registered or not a user-defined Mixin is answered
\* Bad Request, and no DELETE has changed the backend or the registry unless
\* it found every category it names registered as a user-defined Mixin; the
\* unregistering of a named Mixin removes its identifier and frees its
\* location.
C22_DeleteOnlyUserMixins ==
    /\ [](\A p \in Requests :
            DeleteChanged(p)
            => /\ Len(requests[p].mixins) = Len(requests[p].named)
               /\ \A i \in DOMAIN requests[p].mixins :
                     /\ UserDefined(requests[p].mixins[i])
                     /\ str(requests[p].mixins[i]) = str(requests[p].named[i]))
    /\ [][\A p \in Requests :
            DeleteStep(p)
            => /\ \A s \in DOMAIN categories :
                     IF s \in DOMAIN categories'
                     THEN categories'[s] = categories[s]
                     ELSE UserDefined(categories[s]) /\ s \in NamedIds(p)
               /\ DOMAIN categories' \subseteq DOMAIN categories
               /\ \A loc \in DOMAIN locations :
                     IF loc \in DOMAIN locations'
                     THEN locations'[loc] = locations[loc]
                     ELSE loc \in NamedLocations(p)
               /\ DOMAIN locations' \subseteq DOMAIN locations
               /\ DOMAIN user_mixins' \subseteq DOMAIN user_mixins
               /\ DOMAIN user_mixins \ DOMAIN user_mixins' \subseteq NamedIds(p)
               /\ (requests[p].pc = "delete_lookup_id" /\ NotUserDefined(p))
                  => /\ requests'[p].pc = "done"
                     /\ requests'[p].response = "BAD_REQUEST"
                     /\ UNCHANGED <<regVars, user_mixins>>
               /\ requests'[p].pc = "unregister_location"
                  => str(requests[p].mixins[requests[p].i]) \notin DOMAIN categories'
               /\ requests[p].pc = "unregister_location"
                  => /\ requests[p].mixins[requests[p].i].location \notin DOMAIN locations'
                     /\ requests'[p].response = "OK"
                        => requests[p].i = Len(requests[p].named)]_vars

\* A DELETE that named the user-defined Mixin taggy has been answered OK, and
\* neither taggy nor its location is registered.
C22_Witness ==
    \E p \in Requests :
        /\ requests[p].pc = "done"
        /\ requests[p].response = "OK"
        /\ requests[p].named = <<taggy>>
        /\ str(taggy) \notin DOMAIN categories
        /\ "taggy/" \notin DOMAIN locations
        /\ str(taggy) \notin DOMAIN user_mixins

-----------------------------------------------------------------------------
(* C23: when an action POST executes the Action *)

\* The request names one Action whose category is applicable on the entity
\* and whose term is the value of the `action` query parameter.
ApplicableNamed(action_name, objects) ==
    /\ Len(objects) = 1
    /\ Len(objects[1].categories) = 1
    /\ occi_is_applicable_action(Self, objects[1].categories[1])
    /\ action_name = <<objects[1].categories[1].term>>

\* C23: an action POST calls backend.exec_action only if the Action's
\* category is applicable on the entity and its term is the `action` query
\* parameter; otherwise it is answered Bad Request, or Not Found when the
\* entity does not exist, exec_action is not called and the entity is
\* unchanged.
C23_ExecutedOnlyIfApplicable ==
    [][(result'.op = "post_action")
         => /\ result'.value.executed
                 => ApplicableNamed(result'.arg.action, result'.arg.objects)
            /\ ~ApplicableNamed(result'.arg.action, result'.arg.objects)
                 => /\ ~result'.value.executed
                    /\ UNCHANGED entVars
                    /\ \/ result'.value.status = "BAD_REQUEST"
                       \/ result'.value.status = "NOT_FOUND" /\ ~Constructed]_vars

-----------------------------------------------------------------------------
(* C24: which renderer a request gets *)

RECURSIVE Flatten(_)
\* The entries of all Accept headers of a request, in the order they are
\* written.
Flatten(headers) == IF headers = <<>> THEN <<>> ELSE Head(headers) \o Flatten(Tail(headers))

\* The positions of the Accept list whose type has a registered renderer.
Renderable(accept) == {i \in DOMAIN accept : accept[i].c_type \in DOMAIN renderers}

\* Entry i comes before entry j: its q is higher, or the same and it is
\* written first.
Preferred(accept, i, j) ==
    accept[i].q > accept[j].q \/ (accept[i].q = accept[j].q /\ i <= j)

\* C24: the renderer chosen is the one registered for the first type of the
\* Accept list, by descending q and then by position, that has a renderer;
\* without an Accept header it is the default text/plain renderer, and with
\* no type that has a renderer the selection raises RendererError.
C24_FirstRegisteredByQuality ==
    (result.op = "get_renderer")
    => LET accept == Flatten(result.arg)
       IN  /\ accept = <<>> => result.value = default_renderer
           /\ (accept # <<>> /\ Renderable(accept) = {})
                 => result.exc.type = "RendererError"
           /\ \A i \in Renderable(accept) :
                 (\A j \in Renderable(accept) : Preferred(accept, i, j))
                 => result.value = renderers[accept[i].c_type]

-----------------------------------------------------------------------------
(* C25: PUT and the Links of a Resource *)

\* The call that has just returned was a PUT on the id of a stored Resource.
PutOnResource ==
    /\ result'.op = "put"
    /\ str_id(result'.arg.entity_id) \in DOMAIN db
    /\ IsResource(db[str_id(result'.arg.entity_id)])

\* C25: after a PUT on the id of a stored Resource the Resource stored under
\* that id lists the Links it listed before, and those Links are stored.
C25_PutKeepsLinks ==
    [][PutOnResource
         => LET entity_id == str_id(result'.arg.entity_id)
            IN  /\ entity_id \in DOMAIN db'
                /\ db'[entity_id].links = db[entity_id].links
                /\ \A i \in DOMAIN db[entity_id].links :
                      str_id(db[entity_id].links[i]) \in DOMAIN db']_vars

-----------------------------------------------------------------------------
(* C26: attribute headers, rendered and parsed *)

\* C26: parsing the rendering of a list of attribute pairs returns the list:
\* every value comes back as it was, whatever quotes, backslashes, commas,
\* semicolons, equals signs and spaces it holds.
C26_ParseOfRendered ==
    (result.op = "parse") => (result.exc = NoExc /\ result.value = result.arg)

\* Two pairs have come back, the first with a quote and a comma for its
\* value, the second with a backslash.
C26_Witness ==
    /\ result.op = "parse"
    /\ Len(result.arg) = 2
    /\ result.arg[1][2] = <<quotechar, ",">>
    /\ result.arg[2][2] = <<escapechar>>
    /\ result.value = result.arg

=============================================================================
